---- MODULE Spec2Model ----
(***************************************************************************)
(* Model of the job scheduler of MkvBatchMux (src-tauri/src/main.rs):      *)
(* start_muxing / pause_muxing / resume_muxing / stop_muxing, the          *)
(* coordinator run_mux_queue with its worker threads, process_job, the     *)
(* supervision loop wait_for_child_or_stop, the output-reader threads of   *)
(* spawn_log_reader, and the external processes they supervise.            *)
(***************************************************************************)
EXTENDS Integers, Sequences, FiniteSets, TLC

(***************************************************************************)
(* Bounds of the model.                                                    *)
(***************************************************************************)
\* job ids the caller can submit over one run of the application
MaxJobs == 2
\* largest value of settings.max_parallel_jobs that is drawn
MaxParallel == 2
\* number of start_muxing calls that get past the log writes
MaxStarts == 2
\* output lines one multiplexer process writes to its pipes
MaxLines == 1
\* primary tracks after the video track in a drawn track list
MaxTracks == 2

(***************************************************************************)
(* Encodings of Rust values.                                               *)
(***************************************************************************)
\* Option<i32>::None of wait_for_child_or_stop, as unwrap_or(-1) reads it
NoCode == -1
\* Option<usize>::None of settings.max_parallel_jobs
NoParallel == -1
\* mkvmerge's "warnings occurred" exit code
WarningsCode == 1
\* the exit code std::process::Child::kill gives a child on Windows
\* (TerminateProcess(handle, 1)); on Unix the child dies by a signal and
\* ExitStatus::code() is None
WindowsKillCode == 1
\* Option<u8>::None of parse_progress
NoProgress == -1
\* Option::None of a string or bool field
None == "None"

Jobs == 1..MaxJobs
Workers == 1..MaxParallel

Max(a, b) == IF a >= b THEN a ELSE b
Min(a, b) == IF a <= b THEN a ELSE b

(***************************************************************************)
(* Inputs: tracks, jobs, settings.                                         *)
(***************************************************************************)
\* TrackInfo: id is the parsed id, or -1 when track.id does not parse
Track(ty, id, name, lang, def, forced, action) ==
    [track_type |-> ty, id |-> id, name |-> name, language |-> lang,
     is_default |-> def, is_forced |-> forced, action |-> action]

PlainVideo == Track("video", 0, None, None, None, None, None)
NamedVideo == Track("video", 0, " Main ", None, None, None, None)
DefaultAudio == Track("audio", 1, None, None, "true", None, None)
RemovedAudio == Track("audio", 1, None, "eng", "true", None, "remove")
ForcedSub == Track("subtitle", -1, None, None, None, "false", None)
OtherTrack == Track("buttons", 2, None, None, None, "true", None)

\* primary track lists a job is drawn with
TrackLists ==
    { << >>, <<PlainVideo>>, <<NamedVideo>>, <<PlainVideo, RemovedAudio>>,
      <<NamedVideo, RemovedAudio>>, <<PlainVideo, DefaultAudio>>,
      <<PlainVideo, ForcedSub>>, <<PlainVideo, OtherTrack>> }

\* MuxJobRequest: the external file lists hold path tokens; final_is_source
\* says that the primary file is <output dir>/<stem>.mkv, final_preexists
\* that another file already lies at the final path
JobRequests(tracklists, externals) ==
    [tracks : tracklists,
     audios : externals, subtitles : externals,
     chapters : externals, attachments : externals,
     final_is_source : BOOLEAN, final_preexists : BOOLEAN]

NoJob ==
    [tracks |-> << >>, audios |-> << >>, subtitles |-> << >>,
     chapters |-> << >>, attachments |-> << >>,
     final_is_source |-> FALSE, final_preexists |-> FALSE]

\* MuxSettings: every value of the fields the scheduler reads, with the
\* fields only the synthesizer reads left off
SettingsSpace(par) ==
    [destination_dir_empty : BOOLEAN, overwrite_source : BOOLEAN,
     add_crc : BOOLEAN, remove_old_crc : BOOLEAN,
     abort_on_errors : BOOLEAN, max_parallel_jobs : par,
     only_keep_audios_enabled : BOOLEAN,
     only_keep_subtitles_enabled : BOOLEAN,
     only_keep_audio_languages : {<< >>, <<"eng">>},
     only_keep_subtitle_languages : {<< >>, <<"eng">>},
     use_mkvpropedit : BOOLEAN,
     discard_old_chapters : {FALSE}, discard_old_attachments : {FALSE},
     remove_global_tags : {FALSE},
     make_audio_default_language : {None},
     make_subtitle_default_language : {None}]

NoSettings ==
    [destination_dir_empty |-> TRUE, overwrite_source |-> FALSE,
     add_crc |-> FALSE, remove_old_crc |-> FALSE,
     abort_on_errors |-> FALSE, max_parallel_jobs |-> NoParallel,
     only_keep_audios_enabled |-> FALSE,
     only_keep_subtitles_enabled |-> FALSE,
     only_keep_audio_languages |-> << >>,
     only_keep_subtitle_languages |-> << >>,
     use_mkvpropedit |-> FALSE,
     discard_old_chapters |-> FALSE, discard_old_attachments |-> FALSE,
     remove_global_tags |-> FALSE,
     make_audio_default_language |-> None,
     make_subtitle_default_language |-> None]

(***************************************************************************)
(* Pure functions of the source.                                           *)
(***************************************************************************)
\* str::trim on the name tokens the track lists use
Trim(name) == IF name = " Main " THEN "Main" ELSE name

parse_track_id(track, index) ==
    IF track.id >= 0 THEN track.id ELSE index

is_track_removed(track) == track.action = "remove"

\* The directives of one track, in the order build_mkvpropedit_args pushes
\* them.  One directive stands for the four arguments
\* "--edit", "track:<n>", "--set", "<property>=<value>".
TrackEdits(track, index) ==
    LET n == parse_track_id(track, index) + 1
        d(prop, value) == [track |-> n, property |-> prop, value |-> value]
        flag(b) == IF b = "true" THEN "1" ELSE "0"
    IN  IF is_track_removed(track) THEN << >>
        ELSE (IF track.name # None
                THEN << d("name", Trim(track.name)) >> ELSE << >>)
          \o (IF track.language # None
                THEN << d("language", track.language) >> ELSE << >>)
          \o (IF track.is_default # None
                THEN << d("flag-default", flag(track.is_default)) >>
                ELSE << >>)
          \o (IF track.track_type = "subtitle"
                THEN (IF track.is_forced # None
                        THEN << d("flag-forced-display",
                                  flag(track.is_forced)) >>
                        ELSE << >>)
                ELSE IF track.track_type \in {"audio", "video"}
                THEN (IF track.is_forced # None
                        THEN << d("flag-forced", flag(track.is_forced)) >>
                        ELSE << >>)
                ELSE << >>)

RECURSIVE EditsFrom(_, _)
EditsFrom(tracks, i) ==
    IF i > Len(tracks) THEN << >>
    ELSE TrackEdits(tracks[i], i - 1) \o EditsFrom(tracks, i + 1)

build_mkvpropedit_args(job) == EditsFrom(job.tracks, 1)

\* the fast path without the last of its conditions
can_use_with_attachments(s, job) ==
    /\ s.use_mkvpropedit
    /\ s.destination_dir_empty /\ s.overwrite_source
    /\ job.audios = << >>
    /\ job.subtitles = << >>
    /\ job.chapters = << >>

\* process_job: let fast_mux_in_place_allowed
fast_mux_in_place_allowed(s) ==
    s.destination_dir_empty /\ s.overwrite_source

\* process_job: let can_use_mkvpropedit
can_use_mkvpropedit(s, job) ==
    /\ s.use_mkvpropedit
    /\ fast_mux_in_place_allowed(s)
    /\ job.audios = << >>
    /\ job.subtitles = << >>
    /\ job.chapters = << >>
    /\ job.attachments = << >>
    /\ (~s.only_keep_audios_enabled \/ s.only_keep_audio_languages = << >>)
    /\ (~s.only_keep_subtitles_enabled
            \/ s.only_keep_subtitle_languages = << >>)

\* get_output_paths: (output_path, final_path, overwrite_mode) as path
\* tokens.  "tmp" is <stem>#<seconds>.mkv, "final" is <stem>.mkv in the
\* output directory, which is the primary file itself ("src") when the job
\* says so.
overwrite_mode(s) == s.destination_dir_empty \/ s.overwrite_source

final_path(s, job) == IF job.final_is_source THEN "src" ELSE "final"

output_path(s, job) ==
    IF overwrite_mode(s) THEN "tmp" ELSE final_path(s, job)

\* get_output_paths on a primary path [dir, stem, ext], called at the
\* clock second now.  The destination folder, when set, is "dest"; a
\* resolved path is [dir, stem, suffix, ext] with suffix <<seconds>> for
\* <stem>#<seconds>.mkv and << >> for <stem>.mkv.
get_output_paths(video_path, s, now) ==
    LET output_dir == IF s.destination_dir_empty THEN video_path.dir
                      ELSE "dest"
        final == [dir |-> output_dir, stem |-> video_path.stem,
                  suffix |-> << >>, ext |-> "mkv"]
    IN  IF overwrite_mode(s)
          THEN [output_path |-> [final EXCEPT !.suffix = <<now>>],
                final_path |-> final, overwrite_mode |-> TRUE]
          ELSE [output_path |-> final, final_path |-> final,
                overwrite_mode |-> FALSE]

\* run_mux_queue: let max_parallel, the number of worker threads spawned
max_parallel(s) ==
    Max(IF s.max_parallel_jobs = NoParallel THEN 1 ELSE s.max_parallel_jobs,
        1)

(***************************************************************************)
(* The command synthesizer.  An argument is a sequence of characters; a    *)
(* run of characters that holds no space, quote or backslash (a flag, a    *)
(* number, a word) is written as one element.                              *)
(***************************************************************************)
\* the characters of a text token: a track name, a language, a path
Text(t) ==
    CASE t = " Main " -> <<" ", "Main", " ">>
      [] t = "   " -> <<" ", " ", " ">>
      [] t = "my track" -> <<"my", " ", "track">>
      [] t = "it's" -> <<"it", "'", "s">>
      [] t = "say \"hi\"" -> <<"say", " ", "\"", "hi", "\"">>
      [] t = "a b\\" -> <<"a", " ", "b", "\\">>
      [] t = "c\\d" -> <<"c", "\\", "d">>
      [] OTHER -> <<t>>

\* !name.trim().is_empty()
IsBlank(t) == \A i \in 1..Len(Text(t)) : Text(t)[i] = " "

\* str::eq_ignore_ascii_case on the language tokens
LowerCase(t) ==
    CASE t = "ENG" -> "eng"
      [] t = "Fra" -> "fra"
      [] OTHER -> t

eq_ignore_ascii_case(a, b) == LowerCase(a) = LowerCase(b)

Numerals ==
    <<"0", "1", "2", "3", "4", "5", "6", "7", "8", "9", "10", "11", "12",
      "13", "14", "15">>

\* usize::to_string, u64::to_string
to_string(n) == <<Numerals[n + 1]>>

\* format!("{}:{}", a, b)
Colon(a, b) == a \o <<":">> \o b

YesNo(flag) == IF flag = "true" THEN <<"yes">> ELSE <<"no">>

\* (delay * 1000.0) as i64, printed
Millis(delay) ==
    CASE delay = "0" -> <<"0">>
      [] delay = "1.5" -> <<"1500">>
      [] delay = "-0.25" -> <<"-250">>

RECURSIVE Join(_, _)
\* [String]::join(sep)
Join(parts, sep) ==
    IF parts = << >> THEN << >>
    ELSE IF Len(parts) = 1 THEN parts[1]
    ELSE parts[1] \o sep \o Join(Tail(parts), sep)

RECURSIVE Concat(_)
\* the sequences of a sequence, one after the other
Concat(seqs) ==
    IF seqs = << >> THEN << >> ELSE Head(seqs) \o Concat(Tail(seqs))

\* the 1-based positions of the tracks of one kind, in list order
OfType(tracks, track_type) ==
    SelectSeq([i \in 1..Len(tracks) |-> i],
              LAMBDA i : tracks[i].track_type = track_type)

\* the ids of the tracks at the positions; enumerate() counts from 0
IdsAt(tracks, positions) ==
    [k \in 1..Len(positions) |->
        parse_track_id(tracks[positions[k]], positions[k] - 1)]

collect_track_ids_by_language(tracks, track_type, languages) ==
    IdsAt(tracks,
          SelectSeq(OfType(tracks, track_type),
                    LAMBDA i :
                      /\ tracks[i].language # None
                      /\ \E k \in 1..Len(languages) :
                            eq_ignore_ascii_case(languages[k],
                                                 tracks[i].language)))

\* collect_track_ids_by_action: (ids, has_removed)
collect_track_ids_by_action(tracks, track_type) ==
    [ids |-> IdsAt(tracks,
                   SelectSeq(OfType(tracks, track_type),
                             LAMBDA i : ~is_track_removed(tracks[i]))),
     has_removed |-> \E i \in 1..Len(tracks) :
                        /\ tracks[i].track_type = track_type
                        /\ is_track_removed(tracks[i])]

\* a filter that keeps every id
keep_left(left, right) == left

intersect_ids(left, right) ==
    SelectSeq(left, LAMBDA id : \E k \in 1..Len(right) : right[k] = id)

\* apply_track_selection: the no-op test
selection_is_noop(selected, type_ids, has_removed, only_keep_ids) ==
    Len(selected) = Len(type_ids) /\ ~has_removed /\ only_keep_ids = << >>

\* apply_track_selection: the arguments pushed.  only_keep_ids is << >> for
\* None and <<ids>> for Some(ids)
apply_track_selection(tracks, track_type, only_keep_ids) ==
    LET by_action == collect_track_ids_by_action(tracks, track_type)
        type_ids == IdsAt(tracks, OfType(tracks, track_type))
        baseline == IF by_action.has_removed THEN by_action.ids
                    ELSE type_ids
        selected == IF only_keep_ids # << >>
                      THEN intersect_ids(baseline, only_keep_ids[1])
                      ELSE baseline
    IN  IF type_ids = << >> THEN << >>
        ELSE IF selection_is_noop(selected, type_ids,
                                  by_action.has_removed, only_keep_ids)
          THEN << >>
        ELSE IF selected = << >>
          THEN CASE track_type = "audio" -> << <<"--no-audio">> >>
                 [] track_type = "subtitle" -> << <<"--no-subtitles">> >>
                 [] track_type = "video" -> << <<"--no-video">> >>
                 [] OTHER -> << >>
        ELSE CASE track_type = "audio" ->
                    << <<"--audio-tracks">>,
                       Join([k \in 1..Len(selected) |->
                               to_string(selected[k])], <<",">>) >>
               [] track_type = "subtitle" ->
                    << <<"--subtitle-tracks">>,
                       Join([k \in 1..Len(selected) |->
                               to_string(selected[k])], <<",">>) >>
               [] track_type = "video" ->
                    << <<"--video-tracks">>,
                       Join([k \in 1..Len(selected) |->
                               to_string(selected[k])], <<",">>) >>
               [] OTHER -> << >>

\* Option<u64>::None for track_id
NoId == -1

\* TrackOverride without an entry: every field None
NoOverride == [language |-> None, track_name |-> None, delay |-> None]

\* ExternalFileInfo.  included_track_ids and included_subtitle_track_ids
\* are << >> for None and <<ids>> for Some(ids); track_overrides is a
\* function from track ids; probed is what get_mkvmerge_info and
\* parse_external_track_ids_mkvmerge give for the file: << >> when the
\* probe fails, else <<[audio |-> ids, text |-> ids]>>
PlainExternal ==
    [path |-> "x", source |-> None, language |-> None, track_name |-> None,
     delay |-> None, is_default |-> None, is_forced |-> None,
     track_id |-> NoId, included_track_ids |-> << >>,
     include_subtitles |-> FALSE, included_subtitle_track_ids |-> << >>,
     track_overrides |-> << >>, probed |-> << >>, apply_language |-> FALSE]

\* the ids of the kind ("audio" or "text") the probe reports
Probed(file, kind) ==
    IF file.probed = << >> THEN << >> ELSE file.probed[1][kind]

\* one entry, of the declared id, whatever the probe reports
declared_only(file, kind) ==
    IF file.included_track_ids = << << >> >> THEN << >>
    ELSE IF file.track_id # NoId THEN <<file.track_id>>
    ELSE <<0>>

\* build_mkvmerge_command: resolved_ids of an audio or subtitle file;
\* << >> stands for `continue`
resolved_ids(file, kind) ==
    LET ids == Probed(file, kind)
        found ==
          IF file.included_track_ids # << >>
            THEN file.included_track_ids[1]
          ELSE IF file.probed # << >>
            THEN IF Len(ids) > 1 THEN ids
                 ELSE IF file.track_id # NoId THEN <<file.track_id>>
                 ELSE ids
          ELSE IF file.track_id # NoId THEN <<file.track_id>>
          ELSE << >>
    IN  IF file.included_track_ids = << << >> >> THEN << >>
        ELSE IF found = << >> THEN <<0>>
        ELSE found

\* the entries one audio or subtitle file is cloned into
resolve_external(file, kind) ==
    LET ids == resolved_ids(file, kind)
        set_default_on_first == (file.is_default = "true")
    IN  [index \in 1..Len(ids) |->
           [file |-> [file EXCEPT
                        !.track_id = ids[index],
                        !.is_default =
                            IF set_default_on_first
                              THEN (IF index = 1 THEN "true" ELSE "false")
                              ELSE @,
                        !.apply_language = (index = 1)],
            track_id |-> ids[index]]]

resolved_external_audios(job) ==
    Concat([k \in 1..Len(job.audios) |->
              resolve_external(job.audios[k], "audio")])

resolved_external_subtitles(job) ==
    Concat([k \in 1..Len(job.subtitles) |->
              resolve_external(job.subtitles[k], "text")])

\* the subtitle tracks pulled out of one audio file
subtitles_from_audio(file) ==
    LET ids == IF file.included_subtitle_track_ids # << >>
                 THEN file.included_subtitle_track_ids[1]
                 ELSE Probed(file, "text")
    IN  IF ~file.include_subtitles THEN << >>
        ELSE [index \in 1..Len(ids) |->
                [file |-> [file EXCEPT !.track_id = ids[index],
                                       !.apply_language = FALSE,
                                       !.is_default = None,
                                       !.is_forced = None],
                 track_id |-> ids[index]]]

resolved_external_subtitles_from_audio(job) ==
    Concat([k \in 1..Len(job.audios) |->
              subtitles_from_audio(job.audios[k])])

all_subtitles(job) ==
    resolved_external_subtitles(job)
       \o resolved_external_subtitles_from_audio(job)

\* the container-level strip flags
StripFlags(s) ==
    (IF s.discard_old_chapters THEN << <<"--no-chapters">> >> ELSE << >>)
    \o (IF s.discard_old_attachments
          THEN << <<"--no-attachments">> >> ELSE << >>)
    \o (IF s.remove_global_tags
          THEN << <<"--no-global-tags">> >> ELSE << >>)

\* --default-track-flag <id>:<value> for each id
DefaultFlags(ids, value) ==
    Concat([k \in 1..Len(ids) |->
              << <<"--default-track-flag">>,
                 Colon(to_string(ids[k]), value) >>])

\* the default flag of every primary track of the kind is cleared when an
\* external entry of the kind asks for default
ClearDefaults(job, track_type, entries) ==
    IF \E k \in 1..Len(entries) : entries[k].file.is_default = "true"
      THEN DefaultFlags(IdsAt(job.tracks, OfType(job.tracks, track_type)),
                        <<"no">>)
      ELSE << >>

\* make_audio_default_language, make_subtitle_default_language
PromoteDefaults(job, track_type, language) ==
    IF language = None THEN << >>
    ELSE DefaultFlags(collect_track_ids_by_language(job.tracks, track_type,
                                                    <<language>>),
                      <<"yes">>)

\* audio_keep_ids, subtitle_keep_ids
keep_ids(job, track_type, enabled, languages) ==
    IF enabled /\ languages # << >>
      THEN << collect_track_ids_by_language(job.tracks, track_type,
                                            languages) >>
      ELSE << >>

\* the per-track modifications emitted before the primary file
TrackArgs(track, index) ==
    LET id == to_string(parse_track_id(track, index))
    IN  IF is_track_removed(track) THEN << >>
        ELSE (IF track.name # None /\ ~IsBlank(track.name)
                THEN << <<"--track-name">>, Colon(id, Text(track.name)) >>
                ELSE << >>)
          \o (IF track.language # None
                THEN << <<"--language">>, Colon(id, Text(track.language)) >>
                ELSE << >>)
          \o (IF track.is_default # None
                THEN << <<"--default-track-flag">>,
                        Colon(id, YesNo(track.is_default)) >>
                ELSE << >>)
          \o (IF track.track_type = "subtitle" /\ track.is_forced # None
                THEN << <<"--forced-display-flag">>,
                        Colon(id, YesNo(track.is_forced)) >>
                ELSE << >>)

\* source_video_tracks, source_audio_tracks, source_subtitle_tracks as
\* order entries
SourceOrder(job, track_type) ==
    LET ids == collect_track_ids_by_action(job.tracks, track_type).ids
    IN  [k \in 1..Len(ids) |-> Colon(<<"0">>, to_string(ids[k]))]

\* order entries whose file_index starts at 1 for each list
order_from_one(entries, before, per_file) ==
    LET at == SelectSeq([k \in 1..Len(entries) |-> k],
                        LAMBDA k :
                          (entries[k].file.source = "per-file") = per_file)
    IN  [n \in 1..Len(at) |->
           Colon(to_string(at[n]), to_string(entries[at[n]].track_id))]

\* the order entries of the external entries whose file_index starts
\* after `before`, bulk entries first or per-file entries first
ExternalOrder(entries, before, per_file) ==
    LET at == SelectSeq([k \in 1..Len(entries) |-> k],
                        LAMBDA k :
                          (entries[k].file.source = "per-file") = per_file)
    IN  [n \in 1..Len(at) |->
           Colon(to_string(before + at[n]),
                 to_string(entries[at[n]].track_id))]

\* the --track-order argument
TrackOrder(job) ==
    LET audios == resolved_external_audios(job)
        subtitles == all_subtitles(job)
        order == SourceOrder(job, "video")
                   \o ExternalOrder(audios, 0, FALSE)
                   \o ExternalOrder(audios, 0, TRUE)
                   \o SourceOrder(job, "audio")
                   \o SourceOrder(job, "subtitle")
                   \o ExternalOrder(subtitles, Len(audios), FALSE)
                   \o ExternalOrder(subtitles, Len(audios), TRUE)
    IN  IF (audios # << >> \/ subtitles # << >>) /\ order # << >>
          THEN << <<"--track-order">>, Join(order, <<",">>) >>
          ELSE << >>

\* the language, name and delay arguments of an external entry: the
\* override of its track id first, then the file's own value
EntryProps(entry) ==
    LET file == entry.file
        id == to_string(entry.track_id)
        override_entry ==
            IF entry.track_id \in DOMAIN file.track_overrides
              THEN file.track_overrides[entry.track_id] ELSE NoOverride
        language ==
            IF override_entry.language # None THEN override_entry.language
            ELSE IF file.apply_language THEN file.language
            ELSE None
        track_name ==
            IF override_entry.track_name # None
              THEN override_entry.track_name
              ELSE file.track_name
        delay ==
            IF override_entry.delay # None THEN override_entry.delay
            ELSE file.delay
    IN  (IF language # None
           THEN << <<"--language">>, Colon(id, Text(language)) >>
           ELSE << >>)
        \o (IF track_name # None /\ ~IsBlank(track_name)
              THEN << <<"--track-name">>, Colon(id, Text(track_name)) >>
              ELSE << >>)
        \o (IF delay # None
              THEN << <<"--sync">>, Colon(id, Millis(delay)) >>
              ELSE << >>)
        \o (IF file.is_default # None
              THEN << <<"--default-track-flag">>,
                      Colon(id, YesNo(file.is_default)) >>
              ELSE << >>)

AudioEntryArgs(entry) ==
    << <<"--no-video">>, <<"--no-subtitles">>, <<"--no-chapters">>,
       <<"--no-attachments">>, <<"--no-global-tags">>, <<"--audio-tracks">>,
       to_string(entry.track_id) >>
    \o EntryProps(entry)
    \o << Text(entry.file.path) >>

SubtitleEntryArgs(entry) ==
    << <<"--no-video">>, <<"--no-audio">>, <<"--no-chapters">>,
       <<"--no-attachments">>, <<"--no-global-tags">>,
       <<"--subtitle-tracks">>, to_string(entry.track_id) >>
    \o EntryProps(entry)
    \o (IF entry.file.is_forced # None
          THEN << <<"--forced-display-flag">>,
                  Colon(to_string(entry.track_id),
                        YesNo(entry.file.is_forced)) >>
          ELSE << >>)
    \o << Text(entry.file.path) >>

ChapterArgs(chapter) ==
    << <<"--chapters">>, Text(chapter.path) >>
    \o (IF chapter.delay # None /\ chapter.delay # "0"
          THEN << <<"--sync">>, Colon(<<"0">>, Millis(chapter.delay)) >>
          ELSE << >>)

AttachmentArgs(attachment) ==
    << <<"--attach-file">>, Text(attachment.path) >>

\* build_mkvmerge_command: the argument list, for the output path token
\* output; the primary file's path is "src"
build_mkvmerge_command(job, s, output) ==
    LET audios == resolved_external_audios(job)
        subtitles == resolved_external_subtitles(job)
    IN  << <<"--gui-mode">>, <<"--output">>, Text(output) >>
        \o StripFlags(s)
        \o ClearDefaults(job, "audio", audios)
        \o ClearDefaults(job, "subtitle", subtitles)
        \o PromoteDefaults(job, "audio", s.make_audio_default_language)
        \o PromoteDefaults(job, "subtitle",
                           s.make_subtitle_default_language)
        \o apply_track_selection(job.tracks, "video", << >>)
        \o apply_track_selection(job.tracks, "audio",
              keep_ids(job, "audio", s.only_keep_audios_enabled,
                       s.only_keep_audio_languages))
        \o apply_track_selection(job.tracks, "subtitle",
              keep_ids(job, "subtitle", s.only_keep_subtitles_enabled,
                       s.only_keep_subtitle_languages))
        \o Concat([i \in 1..Len(job.tracks) |->
                     TrackArgs(job.tracks[i], i - 1)])
        \o TrackOrder(job)
        \o << Text("src") >>
        \o Concat([k \in 1..Len(audios) |-> AudioEntryArgs(audios[k])])
        \o Concat([k \in 1..Len(all_subtitles(job)) |->
                     SubtitleEntryArgs(all_subtitles(job)[k])])
        \o Concat([k \in 1..Len(job.chapters) |->
                     ChapterArgs(job.chapters[k])])
        \o Concat([k \in 1..Len(job.attachments) |->
                     AttachmentArgs(job.attachments[k])])

\* quote_arg
quote_arg(arg) ==
    IF \E i \in 1..Len(arg) : arg[i] \in {" ", "\"", "'"}
      THEN <<"\"">>
           \o Concat([i \in 1..Len(arg) |->
                        IF arg[i] = "\"" THEN <<"\\", "\"">>
                        ELSE <<arg[i]>>])
           \o <<"\"">>
      ELSE arg

\* join_mkvmerge_command: the preview's command line
join_mkvmerge_command(args) ==
    Join(<< <<"mkvmerge">> >> \o [k \in 1..Len(args) |-> quote_arg(args[k])],
         <<" ">>)

(***************************************************************************)
(* State.                                                                  *)
(***************************************************************************)
VARIABLES
    \* MuxState, behind state.mux_state; settings is << >> for None and
    \* <<s>> for Some(s)
    running, pause, stop, queue, settings, children,
    \* run_mux_queue: the coordinator thread's position, its copy of the
    \* settings, and the mpsc channel the workers share
    cpc, csettings, chan,
    \* the worker threads: position, the job in process_job, the exit code
    \* wait_for_child_or_stop returned
    wpc, wjob, wcode,
    \* the external process of each job and the lines waiting in its pipes
    proc, pipe,
    \* the MuxProgressEvents emitted per job id, in emission order
    events,
    \* the files that exist, per job, as path tokens
    files,
    \* the MuxJobRequest submitted under each job id
    jobs,
    \* history: job ids handed out, start_muxing calls made
    nextJob, starts,
    \* history: the jobs no worker had received at the latest stop_muxing
    \* call of the current session
    queuedAtStop,
    \* the Ok value of the latest preview_mux call, << >> before the first
    preview,
    \* the holder of each mutex (the state mutex, the receiver mutex and
    \* the handle mutex of each child), and the position of each thread
    \* that runs a command
    mutex, cmd

vars ==
    << running, pause, stop, queue, settings, children, cpc, csettings,
       chan, wpc, wjob, wcode, proc, pipe, events, files, jobs, nextJob,
       starts, queuedAtStop, preview, mutex, cmd >>

muxVars == << running, pause, stop, queue, settings, children >>
coordVars == << cpc, csettings, chan >>
workerVars == << wpc, wjob, wcode >>
procVars == << proc, pipe >>
histVars == << nextJob, starts, queuedAtStop >>
lockVars == << mutex, cmd >>

\* an external process: whether it runs, which tool it is, the arguments
\* it was started with (the multiplexer's only), its exit code,
\* whether Child::kill reached it, whether it wrote its output file, and
\* the lines it has written
NoProc == [st |-> "none", tool |-> "none", args |-> << >>, code |-> NoCode,
           killed |-> FALSE, wrote |-> FALSE, lines |-> 0]

Range(seq) == { seq[i] : i \in 1..Len(seq) }

\* MuxProgressEvent without its message label; size_after is None or
\* "Some", error_message is None or the text
Event(status, progress, size_after, error_message) ==
    [status |-> status, progress |-> progress, size_after |-> size_after,
     error_message |-> error_message]

\* an Error event that says nothing
SilentError(error_message) == Event("error", 0, None, None)

ErrorEvent(error_message) == Event("error", 0, None, error_message)

Emit(j, e) == events' = [events EXCEPT ![j] = Append(@, e)]

IsTerminal(e) == e.status \in {"completed", "error"}

Terminals(j) == { i \in 1..Len(events[j]) : IsTerminal(events[j][i]) }

\* The threads that take locks: the pool's workers, the coordinator, and
\* the threads on which the presentation layer's commands run
MaxCallers == 1
Callers == 1..MaxCallers
Worker(w) == <<"worker", w>>
Caller(c) == <<"caller", c>>
CoordThread == <<"coordinator", 0>>

\* state.mux_state, the Arc<Mutex<Receiver>> of run_mux_queue and the
\* Arc<Mutex<Child>> of each job's process
StateMutex == <<"mux_state", 0>>
Receiver == <<"receiver", 0>>
Handle(j) == <<"handle", j>>
Mutexes == {StateMutex, Receiver} \cup { Handle(j) : j \in Jobs }

\* a mutex is free, or locked by a thread at a position of its code
Free == [by |-> <<"none", 0>>, at |-> <<"none", 0>>]
Locked(t, at) == [by |-> t, at |-> at]

\* a command thread between two commands; inside stop_muxing, todo is what
\* is left of the drained children and child the handle under the loop
NoCmd == [pc |-> "idle", todo |-> {}, child |-> 0]

Init ==
    /\ running = FALSE /\ pause = FALSE /\ stop = FALSE
    /\ queue = << >> /\ settings = << >> /\ children = {}
    /\ cpc = "none" /\ csettings = NoSettings /\ chan = << >>
    /\ wpc = [w \in Workers |-> "idle"]
    /\ wjob = [w \in Workers |-> 0]
    /\ wcode = [w \in Workers |-> NoCode]
    /\ proc = [j \in Jobs |-> NoProc]
    /\ pipe = [j \in Jobs |-> << >>]
    /\ events = [j \in Jobs |-> << >>]
    /\ files = [j \in Jobs |-> {}]
    /\ jobs = [j \in Jobs |-> NoJob]
    /\ nextJob = 1 /\ starts = 0
    /\ queuedAtStop = {}
    /\ preview = << >>
    /\ mutex = [m \in Mutexes |-> Free]
    /\ cmd = [c \in Callers |-> NoCmd]

(***************************************************************************)
(* The commands of the presentation layer.                                 *)
(***************************************************************************)
\* the files present when a job is submitted
InitialFiles(job) ==
    {"src"} \cup (IF job.final_preexists /\ ~job.final_is_source
                    THEN {"final"} ELSE {})

\* start_muxing, past clear_log and write_log_line.  The request is drawn
\* from the inputs I, a set of [settings, job] pairs: settings s and, under
\* the next q unused job ids, q jobs that I pairs with s
start_muxing(I, maxq, maxs) ==
    /\ starts < maxs
    /\ \E s \in { i.settings : i \in I },
          q \in 0..Min(maxq, MaxJobs - (nextJob - 1)) :
         \E req \in [nextJob..(nextJob + q - 1) ->
                        { i.job : i \in { x \in I : x.settings = s } }] :
            /\ starts' = starts + 1
            /\ nextJob' = nextJob + q
            /\ jobs' = [j \in Jobs |->
                          IF j \in DOMAIN req THEN req[j] ELSE jobs[j]]
            /\ files' = [j \in Jobs |->
                          IF j \in DOMAIN req THEN InitialFiles(req[j])
                          ELSE files[j]]
            /\ queue' = [i \in 1..q |-> nextJob + i - 1]
            /\ settings' = <<s>>
            /\ stop' = FALSE
            /\ pause' = FALSE
            /\ IF running
                 THEN UNCHANGED << running, cpc, queuedAtStop >>
                 ELSE /\ running' = TRUE
                      /\ cpc' = "settings"
                      /\ queuedAtStop' = {}
            /\ UNCHANGED << children, csettings, chan, workerVars, procVars,
                            events, preview >>

\* the whole command, mutex taken and released
StartMuxing(I, maxq, maxs) ==
    start_muxing(I, maxq, maxs) /\ UNCHANGED lockVars

\* start_muxing when clear_log or write_log_line fails: the `?` returns the
\* error before the state is touched
StartMuxingLogError(maxs) ==
    /\ starts < maxs
    /\ starts' = starts + 1
    /\ UNCHANGED << muxVars, coordVars, workerVars, procVars, events, files,
                    jobs, preview, lockVars, nextJob, queuedAtStop >>

pause_muxing ==
    /\ pause' = TRUE
    /\ UNCHANGED << running, stop, queue, settings, children, coordVars,
                    workerVars, procVars, events, files, jobs, preview,
                    lockVars, histVars >>

resume_muxing ==
    /\ pause' = FALSE
    /\ UNCHANGED << running, stop, queue, settings, children, coordVars,
                    workerVars, procVars, events, files, jobs, preview,
                    lockVars, histVars >>

\* Child::kill: a running child gets the kill signal, an exited one is
\* left as it is
Kill(p) == IF p.st = "running" THEN [p EXCEPT !.st = "killed", !.killed = TRUE]
           ELSE p

\* the jobs of the running session that no worker has received yet
Undrawn ==
    IF ~running THEN {}
    ELSE IF cpc \in {"settings", "jobs"} THEN Range(queue)
    ELSE Range(chan)

stop_muxing ==
    /\ stop' = TRUE
    /\ proc' = [j \in Jobs |-> IF j \in children THEN Kill(proc[j])
                               ELSE proc[j]]
    /\ children' = {}
    /\ queuedAtStop' = Undrawn
    /\ UNCHANGED << running, pause, queue, settings, coordVars, workerVars,
                    pipe, events, files, jobs, preview, lockVars, nextJob,
                    starts >>

\* preview_mux for a request of two jobs given by their primary paths,
\* drawn from the requests R: the paths get_output_paths resolves for
\* each job, the second job at the clock second of the first or later
preview_outputs(R) ==
    /\ \E r \in R :
         preview' =
           << [request |-> r,
               paths |-> [k \in 1..Len(r.videos) |->
                            get_output_paths(r.videos[k], r.settings,
                                             r.now[k])]] >>
    /\ UNCHANGED << muxVars, coordVars, workerVars, procVars, events, files,
                    jobs, histVars, lockVars >>

\* preview_mux for a request of one job drawn from the inputs I: the
\* MuxPreviewResult is kept with the request it answers
preview_mux(I) ==
    /\ \E i \in I :
         LET output == output_path(i.settings, i.job) IN
         preview' =
           << [request |-> i,
               command |-> join_mkvmerge_command(
                              build_mkvmerge_command(i.job, i.settings,
                                                     output)),
               output |-> output] >>
    /\ UNCHANGED << muxVars, coordVars, workerVars, procVars, events, files,
                    jobs, histVars, lockVars >>

(***************************************************************************)
(* run_mux_queue: the coordinator thread.                                  *)
(***************************************************************************)
\* a pool no larger than the job list
SpawnMin(s, n) == Min(max_parallel(s), n)

\* a pool of every worker thread there is, whatever the settings ask
every_worker(s, n) == MaxParallel

\* the number of threads the `for _ in 0..max_parallel` loop spawns for the
\* n jobs the coordinator sent into the channel
SpawnCount(s, n) == max_parallel(s)

\* let Some(settings) = settings: start_muxing has stored them before it
\* spawns the coordinator
CoordSettings ==
    /\ cpc = "settings"
    /\ settings # << >>
    /\ csettings' = settings[1]
    /\ cpc' = "jobs"
    /\ UNCHANGED << muxVars, chan, workerVars, procVars, events, files, jobs,
                    preview, lockVars, histVars >>

\* the queue is cloned and every job sent; tx is dropped before any worker
\* runs, so a receive on the empty channel reports Disconnected
CoordJobs ==
    /\ cpc = "jobs"
    /\ chan' = queue
    /\ cpc' = "spawn"
    /\ UNCHANGED << muxVars, csettings, workerVars, procVars, events, files,
                    jobs, preview, lockVars, histVars >>

CoordSpawn ==
    /\ cpc = "spawn"
    /\ wpc' = [w \in Workers |->
                 IF w <= SpawnCount(csettings, Len(chan)) THEN "check"
                 ELSE "idle"]
    /\ cpc' = "join"
    /\ UNCHANGED << muxVars, csettings, chan, wjob, wcode, procVars, events,
                    files, jobs, preview, lockVars, histVars >>

\* worker.join() has returned for every worker
CoordJoin ==
    /\ cpc = "join"
    /\ \A w \in Workers : wpc[w] \in {"idle", "exited"}
    /\ cpc' = "finish"
    /\ UNCHANGED << muxVars, csettings, chan, workerVars, procVars, events,
                    files, jobs, preview, lockVars, histVars >>

CoordFinish ==
    /\ cpc = "finish"
    /\ running' = FALSE
    /\ children' = {}
    /\ cpc' = "none"
    /\ wpc' = [w \in Workers |-> "idle"]
    /\ queuedAtStop' = {}
    /\ UNCHANGED << pause, stop, queue, settings, csettings, chan, wjob,
                    wcode, procVars, events, files, jobs, preview, lockVars,
                    nextJob, starts >>

(***************************************************************************)
(* The worker loop of run_mux_queue.                                       *)
(***************************************************************************)
Goto(w, pc) == wpc' = [wpc EXCEPT ![w] = pc]

\* process_job returns: the worker is back at the top of its loop
Return(w) ==
    /\ wpc' = [wpc EXCEPT ![w] = "check"]
    /\ wjob' = [wjob EXCEPT ![w] = 0]
    /\ wcode' = [wcode EXCEPT ![w] = NoCode]

\* the flags are read under the state mutex
WorkerCheck(w) ==
    /\ wpc[w] = "check"
    /\ Goto(w, IF stop THEN "exited" ELSE IF pause THEN "sleep" ELSE "recv")
    /\ UNCHANGED << muxVars, coordVars, wjob, wcode, procVars, events, files,
                    jobs, preview, lockVars, histVars >>

\* thread::sleep(200 ms); continue
WorkerSleep(w) ==
    /\ wpc[w] = "sleep"
    /\ Goto(w, "check")
    /\ UNCHANGED << muxVars, coordVars, wjob, wcode, procVars, events, files,
                    jobs, preview, lockVars, histVars >>

\* rx_lock.recv_timeout: a job, or Disconnected on the empty channel
WorkerRecv(w) ==
    /\ wpc[w] = "recv"
    /\ \/ /\ chan # << >>
          /\ wjob' = [wjob EXCEPT ![w] = Head(chan)]
          /\ chan' = Tail(chan)
          /\ Goto(w, "pj_stop")
       \/ /\ chan = << >>
          /\ Goto(w, "exited")
          /\ UNCHANGED << wjob, chan >>
    /\ UNCHANGED << muxVars, cpc, csettings, wcode, procVars, events, files,
                    jobs, preview, lockVars, histVars >>

(***************************************************************************)
(* process_job.                                                            *)
(***************************************************************************)
\* if state.mux_state.lock().unwrap().stop { return; }
PjStop(w) ==
    /\ wpc[w] = "pj_stop"
    /\ IF stop THEN Return(w)
               ELSE Goto(w, "pj_start") /\ UNCHANGED << wjob, wcode >>
    /\ UNCHANGED << muxVars, coordVars, procVars, events, files, jobs,
                    preview, lockVars, histVars >>

PjStart(w) ==
    /\ wpc[w] = "pj_start"
    /\ Emit(wjob[w], Event("processing", 0, None, None))
    /\ Goto(w, "pj_preflight")
    /\ UNCHANGED << muxVars, coordVars, wjob, wcode, procVars, files, jobs,
                    preview, lockVars, histVars >>

\* check_free_space, then the destination check
PjPreflight(w, env) ==
    /\ wpc[w] = "pj_preflight"
    /\ \/ /\ env.faults
          /\ Emit(wjob[w], ErrorEvent("Not enough free space"))
          /\ Goto(w, "abort")
       \/ /\ csettings.destination_dir_empty
          /\ ~csettings.overwrite_source
          /\ Emit(wjob[w], ErrorEvent("Set a destination folder"))
          /\ Goto(w, "abort")
       \/ /\ ~(csettings.destination_dir_empty
                /\ ~csettings.overwrite_source)
          /\ Goto(w, "pj_tool")
          /\ UNCHANGED events
    /\ UNCHANGED << muxVars, coordVars, wjob, wcode, procVars, files, jobs,
                    preview, lockVars, histVars >>

Spawn(j, tool, args) ==
    proc' = [proc EXCEPT ![j] = [NoProc EXCEPT !.st = "running",
                                                !.tool = tool,
                                                !.args = args]]

\* an edit run whatever the directives
AlwaysEdit(edit_args) == TRUE

\* if !edit_args.is_empty()
ShouldEdit(edit_args) == edit_args # << >>

\* the fast path: tool_available("mkvpropedit"), build_mkvpropedit_args,
\* cmd.spawn()
PjTool(w, env) ==
    LET j == wjob[w]
        edit_args == build_mkvpropedit_args(jobs[j])
    IN
    /\ wpc[w] = "pj_tool"
    /\ \/ /\ can_use_mkvpropedit(csettings, jobs[j])
          /\ env.faults
          /\ Emit(j, ErrorEvent("Install mkvpropedit"))
          /\ Return(w)
          /\ UNCHANGED proc
       \/ /\ can_use_mkvpropedit(csettings, jobs[j])
          /\ ShouldEdit(edit_args)
          /\ env.faults
          /\ Emit(j, ErrorEvent("Failed to start mkvpropedit"))
          /\ Return(w)
          /\ UNCHANGED proc
       \/ /\ can_use_mkvpropedit(csettings, jobs[j])
          /\ ShouldEdit(edit_args)
          /\ Spawn(j, "mkvpropedit", << >>)
          /\ Goto(w, "register")
          /\ UNCHANGED << wjob, wcode, events >>
       \/ /\ can_use_mkvpropedit(csettings, jobs[j])
          /\ ~ShouldEdit(edit_args)
          /\ Goto(w, "pj_merge")
          /\ UNCHANGED << wjob, wcode, events, proc >>
       \/ /\ ~can_use_mkvpropedit(csettings, jobs[j])
          /\ Goto(w, "pj_merge")
          /\ UNCHANGED << wjob, wcode, events, proc >>
    /\ UNCHANGED << muxVars, coordVars, pipe, files, jobs, preview, lockVars,
                    histVars >>

\* full synthesis: tool_available("mkvmerge"), then the spawn of
\* run_command_with_logs
PjMerge(w, env) ==
    LET j == wjob[w] IN
    /\ wpc[w] = "pj_merge"
    /\ \/ /\ env.faults
          /\ Emit(j, ErrorEvent("Install mkvmerge"))
          /\ Goto(w, "abort")
          /\ UNCHANGED proc
       \/ /\ env.faults
          /\ Emit(j, ErrorEvent("Failed to start process"))
          /\ Goto(w, "abort")
          /\ UNCHANGED proc
       \/ /\ Spawn(j, "mkvmerge",
                   build_mkvmerge_command(jobs[j], csettings,
                                          output_path(csettings, jobs[j])))
          /\ Goto(w, "register")
          /\ UNCHANGED events
    /\ UNCHANGED << muxVars, coordVars, wjob, wcode, pipe, files, jobs,
                    preview, lockVars, histVars >>

\* mux_state.children.insert(job.id, handle)
Register(w) ==
    /\ wpc[w] = "register"
    /\ children' = children \cup {wjob[w]}
    /\ Goto(w, "wait")
    /\ UNCHANGED << running, pause, stop, queue, settings, coordVars, wjob,
                    wcode, procVars, events, files, jobs, preview, lockVars,
                    histVars >>

\* one round of wait_for_child_or_stop: kill the child if stop is set, then
\* try_wait; the round ends in the 200 ms sleep while the child lives
Wait(w) ==
    LET j == wjob[w]
        p == IF stop THEN Kill(proc[j]) ELSE proc[j]
    IN
    /\ wpc[w] = "wait"
    /\ IF p.st = "exited"
         THEN /\ wcode' = [wcode EXCEPT ![w] = p.code]
              /\ Goto(w, "remove")
              /\ UNCHANGED proc
         ELSE /\ proc' = [proc EXCEPT ![j] = p]
              /\ UNCHANGED << wcode, wpc >>
    /\ UNCHANGED << muxVars, coordVars, wjob, pipe, events, files, jobs,
                    preview, lockVars, histVars >>

\* mux_state.children.remove(&job.id)
Remove(w) ==
    /\ wpc[w] = "remove"
    /\ children' = children \ {wjob[w]}
    /\ Goto(w, "report")
    /\ UNCHANGED << running, pause, stop, queue, settings, coordVars, wjob,
                    wcode, procVars, events, files, jobs, preview, lockVars,
                    histVars >>

\* let treat_as_success
treat_as_success(exit_code, s, job, F) ==
    /\ exit_code = WarningsCode
    /\ (output_path(s, job) \in F \/ final_path(s, job) \in F)

\* the overwrite step: remove_file(primary), rename(output_path, final_path)
Overwrite(s, job, F) ==
    IF overwrite_mode(s) /\ output_path(s, job) \in F
      THEN ((F \ {"src"}) \ {output_path(s, job)}) \cup {final_path(s, job)}
      ELSE F

\* the checksum step on the files F: the files after it and final_output.
\* "crc" is file_name_with_crc(final_path), "stripped" is
\* file_name_without_crc(final_path)
Checksum(s, job, F, crc_ok) ==
    LET final == final_path(s, job) IN
    IF s.add_crc /\ final \in F
      THEN IF crc_ok
             THEN [files |-> (F \ {final}) \cup {"crc"},
                   final_output |-> "crc"]
             ELSE [files |-> F, final_output |-> final]
    ELSE IF s.remove_old_crc /\ final \in F
      THEN [files |-> (F \ {final}) \cup {"stripped"},
            final_output |-> "stripped"]
    ELSE [files |-> F, final_output |-> final]

SizeOf(path, F) == IF path \in F THEN "Some" ELSE None

\* process_job returns and the last Arc of the Child goes: of the reaped
\* process only the record of what was run is kept
Drop(j) ==
    proc' = [proc EXCEPT ![j] = [NoProc EXCEPT !.st = "exited",
                                                !.tool = proc[j].tool,
                                                !.args = proc[j].args]]

\* the match on mkvpropedit's status
ReportEdit(w) ==
    LET j == wjob[w] IN
    /\ proc[j].tool = "mkvpropedit"
    /\ Emit(j, IF wcode[w] = 0
                 THEN Event("completed", 100, SizeOf("src", files[j]), None)
               ELSE IF wcode[w] # NoCode
                 THEN ErrorEvent("mkvpropedit exited with code")
               ELSE ErrorEvent("Failed to wait for mkvpropedit"))
    /\ Return(w)
    /\ UNCHANGED files

\* the exit-code policy and the finalization for mkvmerge; compute_crc
\* fails only where the environment has faults
ReportMerge(w, env) ==
    LET j == wjob[w]
        s == csettings
        exit_code == wcode[w]
    IN
    /\ proc[j].tool = "mkvmerge"
    /\ \/ /\ exit_code # 0
          /\ ~treat_as_success(exit_code, s, jobs[j], files[j])
          /\ Emit(j, ErrorEvent("Process exited with code"))
          /\ Goto(w, "abort")
          /\ UNCHANGED << wjob, wcode, files >>
       \/ /\ exit_code = 0 \/ treat_as_success(exit_code, s, jobs[j], files[j])
          /\ \E crc_ok \in (IF env.faults THEN BOOLEAN ELSE {TRUE}) :
               LET c == Checksum(s, jobs[j],
                                 Overwrite(s, jobs[j], files[j]), crc_ok)
               IN /\ files' = [files EXCEPT ![j] = c.files]
                  /\ Emit(j, Event("completed", 100,
                                   SizeOf(c.final_output, c.files), None))
          /\ Return(w)

\* process_job from the status of the reaped child to its return or to the
\* abort_on_errors check
Report(w, env) ==
    /\ wpc[w] = "report"
    /\ ReportEdit(w) \/ ReportMerge(w, env)
    /\ Drop(wjob[w])
    /\ UNCHANGED << muxVars, coordVars, pipe, jobs, preview, lockVars,
                    histVars >>

\* if settings.abort_on_errors { mux_state.pause = true; } return;
Abort(w) ==
    /\ wpc[w] = "abort"
    /\ pause' = (IF csettings.abort_on_errors THEN TRUE ELSE pause)
    /\ Return(w)
    /\ UNCHANGED << running, stop, queue, settings, children, coordVars,
                    procVars, events, files, jobs, preview, lockVars,
                    histVars >>

(***************************************************************************)
(* The external processes and the reader threads of spawn_log_reader.      *)
(***************************************************************************)
ExitCodes == {0, 1, 2}
KilledCodes == {NoCode, WindowsKillCode}
\* parse_progress of the lines a process writes
LineValues == {NoProgress, 50, 150}

\* An environment: whether resources fail (disk space, a missing tool, a
\* failed spawn, an unreadable output), the exit codes of a process that
\* ends by itself and of a killed one, whether a process that fails leaves
\* an output file, and the lines it writes
AnyEnv ==
    [faults |-> TRUE, codes |-> ExitCodes, killcodes |-> KilledCodes,
     partial |-> BOOLEAN, lines |-> LineValues]

\* the environment of a healthy Unix host: a run succeeds or fails with
\* code 2 and writes progress lines
QuietEnv ==
    [faults |-> FALSE, codes |-> {0, 2}, killcodes |-> {NoCode},
     partial |-> {FALSE}, lines |-> {50}]

\* the process ends with an exit code; the multiplexer may leave its output
\* file behind, and always does on exit code 0
Ends(j, code, wrote) ==
    LET out == proc[j].tool = "mkvmerge" /\ wrote IN
    /\ proc' = [proc EXCEPT ![j].st = "exited", ![j].code = code,
                            ![j].wrote = out]
    /\ IF out
         THEN files' = [files EXCEPT
                          ![j] = @ \cup {output_path(csettings, jobs[j])}]
         ELSE UNCHANGED files

\* the process ends by itself
ProcExit(j, env) ==
    /\ proc[j].st = "running"
    /\ \E code \in env.codes, wrote \in env.partial \cup {TRUE} :
         /\ code = 0 => wrote
         /\ Ends(j, code, wrote)
    /\ UNCHANGED << muxVars, coordVars, workerVars, pipe, events, jobs,
                    preview, lockVars, histVars >>

\* the killed process reports exited
ProcDie(j, env) ==
    /\ proc[j].st = "killed"
    /\ \E code \in env.killcodes, wrote \in env.partial :
         Ends(j, code, wrote)
    /\ UNCHANGED << muxVars, coordVars, workerVars, pipe, events, jobs,
                    preview, lockVars, histVars >>

\* the multiplexer writes a line to stdout or stderr (the property editor
\* is spawned without pipes)
ProcWrite(j, env) ==
    /\ proc[j].st = "running"
    /\ proc[j].tool = "mkvmerge"
    /\ proc[j].lines < MaxLines
    /\ \E v \in env.lines :
         pipe' = [pipe EXCEPT ![j] = Append(@, v)]
    /\ proc' = [proc EXCEPT ![j].lines = @ + 1]
    /\ UNCHANGED << muxVars, coordVars, workerVars, events, files, jobs,
                    preview, lockVars, histVars >>

\* a reader thread takes a line: a Processing event when parse_progress
\* finds a percentage
ReadLine(j) ==
    /\ pipe[j] # << >>
    /\ pipe' = [pipe EXCEPT ![j] = Tail(@)]
    /\ IF Head(pipe[j]) # NoProgress
         THEN Emit(j, Event("processing", Head(pipe[j]), None, None))
         ELSE UNCHANGED events
    /\ UNCHANGED << muxVars, coordVars, workerVars, proc, files, jobs,
                    preview, lockVars, histVars >>

(***************************************************************************)
(* Specifications.                                                         *)
(***************************************************************************)
WorkerStep(w, env) ==
    \/ WorkerCheck(w) \/ WorkerSleep(w) \/ WorkerRecv(w)
    \/ PjStop(w) \/ PjStart(w) \/ PjPreflight(w, env) \/ PjTool(w, env)
    \/ PjMerge(w, env) \/ Register(w) \/ Wait(w) \/ Remove(w)
    \/ Report(w, env) \/ Abort(w)

Coordinator ==
    CoordSettings \/ CoordJobs \/ CoordSpawn \/ CoordJoin \/ CoordFinish

Processes(env) ==
    \E j \in Jobs :
        ProcExit(j, env) \/ ProcDie(j, env) \/ ProcWrite(j, env) \/ ReadLine(j)

Threads(env) ==
    \/ Coordinator
    \/ \E w \in Workers : WorkerStep(w, env)
    \/ Processes(env)

Input(s, job) == [settings |-> s, job |-> job]

\* the values of settings.max_parallel_jobs that are drawn
ParValues == {NoParallel} \cup (0..MaxParallel)

\* settings with a destination folder, no checksum and no language filter
DestSettings(par, abort) ==
    [NoSettings EXCEPT !.destination_dir_empty = FALSE,
                       !.max_parallel_jobs = par,
                       !.abort_on_errors = abort]

\* a job with one video track, written to a destination that holds no file
\* of its name
PlainJob == [NoJob EXCEPT !.tracks = <<PlainVideo>>]

(***************************************************************************)
(* Spec: the scheduler.  Sessions of up to MaxJobs jobs to a destination   *)
(* folder under every max_parallel_jobs and abort_on_errors, every         *)
(* command at every moment, in the quiet environment.  The caller passes   *)
(* the same settings on every start_muxing call of a run.                  *)
(***************************************************************************)
SchedInputs ==
    { Input(DestSettings(par, abort), PlainJob) :
        par \in ParValues, abort \in BOOLEAN }

SameSettings(I) ==
    { i \in I : settings = << >> \/ settings = <<i.settings>> }

Next ==
    \/ Threads(QuietEnv)
    \/ StartMuxing(SameSettings(SchedInputs), MaxJobs, MaxStarts)
    \/ StartMuxingLogError(MaxStarts)
    \/ pause_muxing
    \/ resume_muxing
    \/ stop_muxing

Spec == Init /\ [][Next]_vars

(***************************************************************************)
(* JobSpec: one job in one session, in any environment, stopped at any     *)
(* moment.  The inputs are every combination of the fields the fast-path   *)
(* decision reads, and every combination of the fields the finalization    *)
(* reads under each output mode.                                           *)
(***************************************************************************)
Externals == {<< >>, <<PlainExternal>>}

\* the external file lists of a job that are not empty
Given(job) ==
    { k \in {"audios", "subtitles", "chapters", "attachments"} :
        job[k] # << >> }

\* no checksum, no abort; one video track with or without an edit; no
\* external list, one of them, or all four
PathInputs ==
    { Input(s, job) :
        s \in { x \in SettingsSpace({NoParallel}) :
                  ~x.add_crc /\ ~x.remove_old_crc /\ ~x.abort_on_errors },
        job \in { r \in JobRequests({<<PlainVideo>>, <<NamedVideo>>},
                                     Externals) :
                    /\ ~r.final_is_source /\ ~r.final_preexists
                    /\ Cardinality(Given(r)) \in {0, 1, 4} } }

\* no language filter, no external file; every track list where the fast
\* path is open
OutcomeInputs ==
    { i \in
        { Input(s, job) :
            s \in { x \in SettingsSpace({NoParallel}) :
                      /\ ~x.only_keep_audios_enabled
                      /\ ~x.only_keep_subtitles_enabled
                      /\ x.only_keep_audio_languages = << >>
                      /\ x.only_keep_subtitle_languages = << >> },
            job \in { r \in JobRequests(TrackLists, {<< >>}) :
                        r.final_is_source => ~r.final_preexists } } :
        i.job.tracks # <<PlainVideo>>
            => can_use_mkvpropedit(i.settings, i.job) }

JobInputs == PathInputs \cup OutcomeInputs

JobNext ==
    \/ Threads(AnyEnv)
    \/ StartMuxing(JobInputs, 1, 1)
    \/ StartMuxingLogError(1)
    \/ stop_muxing

JobSpec == Init /\ [][JobNext]_vars

(***************************************************************************)
(* FairSpec: sessions of one job and one worker, started, paused and       *)
(* stopped at any moment by a caller who never resumes, in any             *)
(* environment, with the scheduling the threads get: the coordinator,      *)
(* each worker and each reader keeps running, a process that runs ends,    *)
(* and a killed process reports exited.  Nothing makes the caller issue a  *)
(* command or a process write a line.                                      *)
(***************************************************************************)
InPlaceSettings(abort) ==
    [NoSettings EXCEPT !.overwrite_source = TRUE, !.use_mkvpropedit = TRUE,
                       !.abort_on_errors = abort]

\* neither a destination folder nor overwrite_source
NoDestination(abort) == [NoSettings EXCEPT !.abort_on_errors = abort]

FairInputs ==
    { Input(DestSettings(NoParallel, abort), PlainJob) : abort \in BOOLEAN }
    \cup { Input(InPlaceSettings(FALSE), [NoJob EXCEPT !.tracks = t]) :
             t \in {<<PlainVideo>>, <<NamedVideo>>} }
    \cup { Input(NoDestination(TRUE), PlainJob) }

FairNext ==
    \/ Threads(AnyEnv)
    \/ StartMuxing(SameSettings(FairInputs), 1, MaxStarts)
    \/ StartMuxingLogError(MaxStarts)
    \/ pause_muxing
    \/ stop_muxing

Fairness ==
    /\ WF_vars(Coordinator)
    /\ \A w \in Workers : WF_vars(WorkerStep(w, AnyEnv))
    /\ \A j \in Jobs : /\ WF_vars(ProcExit(j, AnyEnv))
                        /\ WF_vars(ProcDie(j, AnyEnv))
                        /\ WF_vars(ReadLine(j))

FairSpec == Init /\ [][FairNext]_vars /\ Fairness

(***************************************************************************)
(* SynthSpec: the command synthesizer.  A job and its settings are drawn,  *)
(* the worker stands in process_job before the multiplexer is started:     *)
(* the step applies build_mkvmerge_command and hands the arguments to the  *)
(* process, and preview_mux shows the command line of the same request.    *)
(***************************************************************************)
\* the state of a one-job session whose worker has reached full synthesis
AtMerge(i) ==
    /\ running = TRUE /\ pause = FALSE /\ stop = FALSE
    /\ queue = <<1>> /\ settings = <<i.settings>> /\ children = {}
    /\ cpc = "join" /\ csettings = i.settings /\ chan = << >>
    /\ wpc = [w \in Workers |-> IF w = 1 THEN "pj_merge" ELSE "idle"]
    /\ wjob = [w \in Workers |-> IF w = 1 THEN 1 ELSE 0]
    /\ wcode = [w \in Workers |-> NoCode]
    /\ proc = [j \in Jobs |-> NoProc]
    /\ pipe = [j \in Jobs |-> << >>]
    /\ events = [j \in Jobs |->
                   IF j = 1 THEN <<Event("processing", 0, None, None)>>
                   ELSE << >>]
    /\ files = [j \in Jobs |-> IF j = 1 THEN InitialFiles(i.job) ELSE {}]
    /\ jobs = [j \in Jobs |-> IF j = 1 THEN i.job ELSE NoJob]
    /\ nextJob = 2 /\ starts = 1
    /\ queuedAtStop = {}
    /\ preview = << >>
    /\ mutex = [m \in Mutexes |-> Free]
    /\ cmd = [c \in Callers |-> NoCmd]

\* a primary track list from the shapes of its tracks; the id of a track
\* is its 0-based position
Shaped(shapes) ==
    [i \in 1..Len(shapes) |->
        Track(shapes[i].track_type, i - 1, None, shapes[i].language, None,
              None, shapes[i].action)]

VideoShapes ==
    [track_type : {"video"}, language : {None, "fra"},
     action : {None, "remove"}]

TrackShapes ==
    [track_type : {"audio", "subtitle"},
     language : {None, "eng", "ENG", "fra"},
     action : {None, "remove"}]

\* a video track followed by up to MaxTracks audio and subtitle tracks
SelectionTracks ==
    { Shaped(<<v>> \o r) :
        v \in VideoShapes,
        r \in UNION { [1..n -> TrackShapes] : n \in 0..MaxTracks } }

\* a destination folder and every state of the two keep-language filters
SelectionSettings ==
    { [DestSettings(NoParallel, FALSE) EXCEPT
          !.only_keep_audios_enabled = ae,
          !.only_keep_audio_languages = al,
          !.only_keep_subtitles_enabled = se,
          !.only_keep_subtitle_languages = sl] :
        ae \in BOOLEAN, al \in {<< >>, <<"eng">>},
        se \in BOOLEAN, sl \in {<< >>, <<"eng">>} }

SelectionInputs ==
    { Input(s, [NoJob EXCEPT !.tracks = t]) :
        s \in SelectionSettings, t \in SelectionTracks }

\* an ExternalFileInfo from the fields a shape gives and a path
External(shape, path) ==
    [f \in DOMAIN PlainExternal |->
        IF f = "path" THEN path
        ELSE IF f \in DOMAIN shape THEN shape[f]
        ELSE PlainExternal[f]]

\* what the probe of an external file may report
ProbeResults ==
    { << >>,
      << [audio |-> << >>, text |-> << >>] >>,
      << [audio |-> <<3>>, text |-> <<4>>] >>,
      << [audio |-> <<1, 2>>, text |-> <<3, 4>>] >> }

\* a per-track override for track 2
Override2 ==
    [i \in {2} |-> [language |-> "fra", track_name |-> "Dub",
                    delay |-> "1.5"]]

\* one external file in every state of the fields its resolution reads
FileShapes ==
    [source : {None, "per-file"}, language : {None, "eng"},
     is_default : {None, "true", "false"}, track_id : {NoId, 5},
     included_track_ids : {<< >>, << << >> >>, << <<1, 2>> >>},
     probed : ProbeResults, include_subtitles : BOOLEAN,
     track_overrides : {<< >>, Override2}]

\* primary tracks with defaults of their own
DefaultTracks ==
    << PlainVideo, DefaultAudio,
       Track("subtitle", 2, None, "eng", "true", "false", None) >>

\* a destination folder, with and without the promotion of a language to
\* default and the strip flags
ExternalSettings ==
    { [DestSettings(NoParallel, FALSE) EXCEPT
          !.make_audio_default_language = lang,
          !.make_subtitle_default_language = lang,
          !.discard_old_chapters = strip,
          !.discard_old_attachments = strip,
          !.remove_global_tags = strip] :
        lang \in {None, "eng"}, strip \in BOOLEAN }

\* one external audio file or one external subtitle file
OneFileInputs ==
    { Input(s, [NoJob EXCEPT !.tracks = DefaultTracks, ![list] = <<file>>]) :
        s \in { x \in ExternalSettings : ~x.discard_old_chapters },
        list \in {"audios", "subtitles"},
        file \in { External(shape, "x") : shape \in FileShapes } }

\* the files of a list of shapes, with the paths p1, p2
Files(shapes, paths) ==
    [k \in 1..Len(shapes) |-> External(shapes[k], paths[k])]

OrderShapes ==
    [source : {None, "per-file"},
     probed : { << [audio |-> <<3>>, text |-> <<4>>] >>,
                << [audio |-> <<1, 2>>, text |-> <<3, 4>>] >> },
     include_subtitles : BOOLEAN]

\* up to two external files of a kind
FileLists(paths) ==
    { Files(shapes, paths) :
        shapes \in UNION { [1..n -> OrderShapes] : n \in 0..2 } }

Chapter ==
    [PlainExternal EXCEPT !.path = "chapters.xml", !.delay = "-0.25"]

Attachment == [PlainExternal EXCEPT !.path = "font.ttf"]

\* up to two audio files and up to two subtitle files beside primary
\* tracks of every kind, one of them marked Remove
SeveralFilesInputs ==
    { Input(s, [NoJob EXCEPT
                   !.tracks = << PlainVideo, DefaultAudio,
                                 Track("audio", 2, None, "fra", None, None,
                                       "remove"),
                                 Track("subtitle", 3, None, None, None,
                                       None, None) >>,
                   !.audios = a, !.subtitles = b,
                   !.chapters = IF s.discard_old_chapters
                                  THEN <<Chapter>> ELSE << >>,
                   !.attachments = IF s.discard_old_chapters
                                     THEN <<Attachment>> ELSE << >>]) :
        s \in { x \in ExternalSettings :
                  x.make_audio_default_language = None },
        a \in FileLists(<<"a1", "a2">>),
        b \in { f \in FileLists(<<"s1", "s2">>) :
                  \A k \in 1..Len(f) : ~f[k].include_subtitles } }

\* names a user may give a track
TextNames ==
    { "Main", " Main ", "   ", "my track", "it's", "say \"hi\"", "a b\\",
      "c\\d" }

\* a named video track, alone or beside an external audio file with a
\* track name and a path of its own
TextInputs ==
    { Input(DestSettings(NoParallel, FALSE),
            [NoJob EXCEPT
               !.tracks = <<Track("video", 0, name, None, None, None, None)>>,
               !.audios = a]) :
        name \in TextNames,
        a \in {<< >>}
               \cup { <<[PlainExternal EXCEPT !.track_name = n,
                                              !.path = p]>> :
                        n \in TextNames, p \in {"x", "my track"} } }

SynthInputs == SelectionInputs \cup OneFileInputs \cup SeveralFilesInputs

SynthInit == \E i \in SynthInputs : AtMerge(i)

SynthNext ==
    \/ \E w \in Workers : PjMerge(w, QuietEnv)
    \/ preview_mux({Input(csettings, jobs[1])})

SynthSpec == SynthInit /\ [][SynthNext]_vars

(***************************************************************************)
(* TextSpec: the synthesizer and the preview on the jobs whose arguments   *)
(* hold text of the user.                                                  *)
(***************************************************************************)
TextInit == \E i \in TextInputs : AtMerge(i)

TextSpec == TextInit /\ [][SynthNext]_vars

(***************************************************************************)
(* PathSpec: the output paths of the two jobs of one request, for every    *)
(* pair of distinct primary paths over two folders (one of them the        *)
(* destination folder), two stems and two extensions, under every output   *)
(* mode, resolved within one clock second or one second apart.             *)
(***************************************************************************)
MaxClock == 1

VideoPaths == [dir : {"a", "dest"}, stem : {"x", "y"}, ext : {"mkv", "mp4"}]

PathRequests ==
    { r \in
        { [settings |-> [NoSettings EXCEPT !.destination_dir_empty = e,
                                           !.overwrite_source = o],
           videos |-> v, now |-> at] :
            e \in BOOLEAN, o \in BOOLEAN,
            v \in VideoPaths \X VideoPaths,
            at \in (0..MaxClock) \X (0..MaxClock) } :
        r.videos[1] # r.videos[2] /\ r.now[1] <= r.now[2] }

PathNext == preview_outputs(PathRequests)

PathSpec == Init /\ [][PathNext]_vars

(***************************************************************************)
(* LockSpec: the locks.  The scheduler with every mutex taken and          *)
(* released where the code takes and releases it: a thread waits for the   *)
(* mutex of its next step, holds it for that step, and gives it back when  *)
(* the guard goes out of scope.  One session of up to MaxJobs jobs with    *)
(* MaxParallel workers, every command at every moment.                     *)
(***************************************************************************)
\* where a thread is in its code
Position(t) ==
    IF t[1] = "worker" THEN << wpc[t[2]], wjob[t[2]] >>
    ELSE IF t[1] = "caller" THEN << cmd[t[2]].pc, cmd[t[2]].child >>
    ELSE << cpc, 0 >>

\* the mutex a worker locks for its next step, as a set
WorkerNeeds(w) ==
    IF wpc[w] \in {"check", "pj_stop", "register", "wait", "remove"}
      THEN {StateMutex}
    ELSE IF wpc[w] = "abort" /\ csettings.abort_on_errors THEN {StateMutex}
    ELSE IF wpc[w] = "recv" THEN {Receiver}
    ELSE IF wpc[w] \in {"wait_kill", "wait_try"} THEN {Handle(wjob[w])}
    ELSE {}

CoordNeeds ==
    IF cpc \in {"settings", "jobs", "finish"} THEN {StateMutex} ELSE {}

CallerNeeds(c) ==
    IF cmd[c].pc \in {"start", "pause", "resume", "stop"} THEN {StateMutex}
    ELSE IF cmd[c].pc = "kill" THEN {Handle(cmd[c].child)}
    ELSE {}

Needs(t) ==
    IF t[1] = "worker" THEN WorkerNeeds(t[2])
    ELSE IF t[1] = "caller" THEN CallerNeeds(t[2])
    ELSE CoordNeeds

\* as Outer, were the child guard of a round of wait_for_child_or_stop
\* bound for the whole round: it would live through the sleep and the next
\* round's lock of the state mutex
guard_kept_for_the_round(t) ==
    IF t[1] = "caller" /\ cmd[t[2]].pc = "kill" THEN {StateMutex}
    ELSE IF t[1] = "worker" /\ wpc[t[2]] \in {"wait_sleep", "wait"}
      THEN { m \in {Handle(wjob[t[2]])} : mutex[m].by = t }
    ELSE {}

\* the guards of enclosing scopes that live on at the thread's position:
\* stop_muxing's mux_state guard lives through its loop over the children
Outer(t) ==
    IF t[1] = "caller" /\ cmd[t[2]].pc = "kill" THEN {StateMutex} ELSE {}

\* the guards that have gone out of scope: the thread drops them before
\* anything else
Dropped(t) ==
    { m \in Mutexes :
        /\ mutex[m].by = t
        /\ mutex[m].at # Position(t)
        /\ m \notin Outer(t) }

\* lock() is called and has not returned
Wanting(t) ==
    /\ Dropped(t) = {}
    /\ \E m \in Needs(t) : mutex[m].by # t

\* the thread's next step can be taken
Ready(t) ==
    /\ Dropped(t) = {}
    /\ \A m \in Needs(t) : mutex[m].by = t

\* lock() returns
Grant(t) ==
    /\ Dropped(t) = {}
    /\ \E m \in Needs(t) :
         /\ mutex[m] = Free
         /\ mutex' = [mutex EXCEPT ![m] = Locked(t, Position(t))]
    /\ UNCHANGED << muxVars, coordVars, workerVars, procVars, events, files,
                    jobs, histVars, preview, cmd >>

\* a guard is dropped
Unlock(t) ==
    /\ \E m \in Dropped(t) : mutex' = [mutex EXCEPT ![m] = Free]
    /\ UNCHANGED << muxVars, coordVars, workerVars, procVars, events, files,
                    jobs, histVars, preview, cmd >>

\* wait_for_child_or_stop, the first block: the stop flag is read
WaitStop(w) ==
    /\ wpc[w] = "wait"
    /\ Goto(w, IF stop THEN "wait_kill" ELSE "wait_try")
    /\ UNCHANGED << muxVars, coordVars, wjob, wcode, procVars, events, files,
                    jobs, preview, lockVars, histVars >>

\* if let Ok(mut child) = handle.lock() { child.kill() }
WaitKill(w) ==
    /\ wpc[w] = "wait_kill"
    /\ proc' = [proc EXCEPT ![wjob[w]] = Kill(@)]
    /\ Goto(w, "wait_try")
    /\ UNCHANGED << muxVars, coordVars, wjob, wcode, pipe, events, files,
                    jobs, preview, lockVars, histVars >>

\* handle.lock().unwrap().try_wait()
WaitTry(w) ==
    /\ wpc[w] = "wait_try"
    /\ IF proc[wjob[w]].st = "exited"
         THEN /\ wcode' = [wcode EXCEPT ![w] = proc[wjob[w]].code]
              /\ Goto(w, "remove")
         ELSE /\ Goto(w, "wait_sleep")
              /\ UNCHANGED wcode
    /\ UNCHANGED << muxVars, coordVars, wjob, procVars, events, files, jobs,
                    preview, lockVars, histVars >>

\* thread::sleep(200 ms) at the end of the round
WaitSleep(w) ==
    /\ wpc[w] = "wait_sleep"
    /\ Goto(w, "wait")
    /\ UNCHANGED << muxVars, coordVars, wjob, wcode, procVars, events, files,
                    jobs, preview, lockVars, histVars >>

LockedWorker(w, env) ==
    /\ Ready(Worker(w))
    /\ \/ WorkerCheck(w) \/ WorkerSleep(w) \/ WorkerRecv(w)
       \/ PjStop(w) \/ PjStart(w) \/ PjPreflight(w, env) \/ PjTool(w, env)
       \/ PjMerge(w, env) \/ Register(w) \/ Remove(w)
       \/ Report(w, env) \/ Abort(w)
       \/ WaitStop(w) \/ WaitKill(w) \/ WaitTry(w) \/ WaitSleep(w)

LockedCoordinator == Ready(CoordThread) /\ Coordinator

\* a command arrives on a command thread
Call(c, maxs) ==
    /\ cmd[c].pc = "idle"
    /\ \E name \in {"start", "pause", "resume", "stop"} :
         /\ name = "start" =>
              starts + Cardinality({ d \in Callers : cmd[d].pc = "start" })
                < maxs
         /\ cmd' = [cmd EXCEPT ![c].pc = name]
    /\ UNCHANGED << muxVars, coordVars, workerVars, procVars, events, files,
                    jobs, histVars, preview, mutex >>

Done(c) == cmd' = [cmd EXCEPT ![c] = NoCmd]

CallStart(c, I, maxq, maxs) ==
    /\ cmd[c].pc = "start"
    /\ start_muxing(I, maxq, maxs)
    /\ Done(c)
    /\ UNCHANGED mutex

CallPause(c) ==
    /\ cmd[c].pc \in {"pause", "resume"}
    /\ pause' = (cmd[c].pc = "pause")
    /\ Done(c)
    /\ UNCHANGED << running, stop, queue, settings, children, coordVars,
                    workerVars, procVars, events, files, jobs, preview,
                    mutex, histVars >>

\* stop_muxing up to the loop: the flag is set and the children drained
CallStop(c) ==
    /\ cmd[c].pc = "stop"
    /\ stop' = TRUE
    /\ children' = {}
    /\ queuedAtStop' = Undrawn
    /\ IF children = {}
         THEN Done(c)
         ELSE \E j \in children :
                cmd' = [cmd EXCEPT ![c] = [pc |-> "kill",
                                           todo |-> children \ {j},
                                           child |-> j]]
    /\ UNCHANGED << running, pause, queue, settings, coordVars, workerVars,
                    procVars, events, files, jobs, preview, mutex, nextJob,
                    starts >>

\* one round of the loop: child.kill() under the handle's mutex
CallKill(c) ==
    /\ cmd[c].pc = "kill"
    /\ proc' = [proc EXCEPT ![cmd[c].child] = Kill(@)]
    /\ IF cmd[c].todo = {}
         THEN Done(c)
         ELSE \E j \in cmd[c].todo :
                cmd' = [cmd EXCEPT ![c].todo = @ \ {j}, ![c].child = j]
    /\ UNCHANGED << muxVars, coordVars, workerVars, pipe, events, files,
                    jobs, preview, mutex, histVars >>

Command(c, I, maxq, maxs) ==
    /\ Ready(Caller(c))
    /\ \/ Call(c, maxs)
       \/ CallStart(c, I, maxq, maxs) \/ CallPause(c)
       \/ CallStop(c) \/ CallKill(c)

LockThreads ==
    { Worker(w) : w \in Workers } \cup { Caller(c) : c \in Callers }
      \cup {CoordThread}

\* the start_muxing calls of a behaviour of LockSpec
LockStarts == 1

LockInputs == { Input(DestSettings(MaxParallel, TRUE), PlainJob) }

\* the steps of one thread
Runs(t) ==
    \/ Grant(t)
    \/ Unlock(t)
    \/ IF t[1] = "worker" THEN LockedWorker(t[2], QuietEnv)
       ELSE IF t[1] = "caller"
         THEN Command(t[2], LockInputs, MaxJobs, LockStarts)
       ELSE LockedCoordinator

LockNext ==
    \/ \E t \in LockThreads : Grant(t) \/ Unlock(t)
    \/ \E w \in Workers : LockedWorker(w, QuietEnv)
    \/ LockedCoordinator
    \/ \E c \in Callers : Command(c, LockInputs, MaxJobs, LockStarts)
    \/ \E j \in Jobs : ProcExit(j, QuietEnv) \/ ProcDie(j, QuietEnv)

LockSpec == Init /\ [][LockNext]_vars

(***************************************************************************)
(* Properties.                                                             *)
(***************************************************************************)
\* C1: after stop_muxing is called during a running session, a job that no
\* worker had received at that moment never emits an event: its event list
\* stays empty for the rest of the session.
C1_QueuedJobsStaySilent ==
    \A j \in queuedAtStop : events[j] = << >>

\* C2: under fair scheduling, once stop is requested the session returns to
\* Idle with no live process: running is false and children is empty.
C2_StopLeadsToIdle ==
    stop ~> (~running /\ children = {})

\* C3: a job leaves the queue only in a state where pause is false: no
\* worker receives a job in a step that starts with pause set.
C3_NoDequeueWhilePaused ==
    [][\A w \in Workers : (wjob[w] = 0 /\ wjob'[w] # 0) => ~pause]_vars

\* the worker threads the coordinator has spawned
Spawned == { w \in Workers : wpc[w] # "idle" }

\* C4 (as the code has it): a session whose settings give maxParallel p
\* runs exactly max(1, p) worker threads, whatever the length of its queue.
C4_SpawnsMaxParallelWorkers ==
    cpc = "join" => Cardinality(Spawned) = max_parallel(csettings)

\* C4, witness: two workers were spawned for a queue of at most one job.
C4_TwoWorkersForShortQueue ==
    /\ cpc = "join" /\ starts = 1
    /\ \A w \in Workers : wpc[w] = "check"
    /\ chan = queue /\ Len(queue) <= 1

\* C4 (as the specification has it): the coordinator spawns exactly
\* min(max(1, p), q) worker threads for a queue of length q.
C4_SpawnsMinOfParallelAndQueue ==
    [][(cpc = "spawn" /\ cpc' = "join")
          => Cardinality(Spawned') = Min(max_parallel(csettings), Len(chan))
      ]_vars

\* the worker has taken job j's handle out of children, or never put one in
Removed(j) ==
    /\ proc[j].st # "none"
    /\ \A w \in Workers :
          wjob[w] = j => wpc[w] \notin {"register", "wait", "remove"}

\* C5: once the worker has removed a job's handle from children, the only
\* event the job still emits is its terminal event.
C5_OnlyTerminalAfterRemoval ==
    [][\A j \in Jobs :
          (Removed(j) /\ events'[j] # events[j])
             => /\ Len(events'[j]) = Len(events[j]) + 1
                /\ IsTerminal(events'[j][Len(events'[j])])
                /\ Terminals(j) = {}
      ]_vars

Last(seq) == seq[Len(seq)]

\* the worker leaves the report of job j's multiplexer with a Completed event
ReportsCompleted(w) ==
    /\ events'[wjob[w]] # events[wjob[w]]
    /\ Last(events'[wjob[w]]).status = "completed"

\* C6: a job whose multiplexer exits with a nonzero code is reported
\* Completed only if the code is the warnings code and the run wrote its
\* output file; on any other nonzero exit the job is reported Error and no
\* file is touched.
C6_CompletedOnlyWithOutput ==
    [][\A w \in Workers :
          (/\ wpc[w] = "report" /\ wpc'[w] # "report"
           /\ proc[wjob[w]].tool = "mkvmerge"
           /\ wcode[w] # 0
           /\ ~(wcode[w] = WarningsCode /\ proc[wjob[w]].wrote))
             => /\ ~ReportsCompleted(w)
                /\ files'[wjob[w]] = files[wjob[w]]
      ]_vars

\* the details of the resource faults and of the configuration fault
FaultDetails ==
    { "Not enough free space", "Install mkvmerge", "Install mkvpropedit",
      "Set a destination folder" }

\* C7: with abort_on_errors set, a job handler that returns after a resource
\* or configuration fault leaves the pause flag set.
C7_FaultsPauseUnderAbort ==
    [][\A w \in Workers :
          (/\ wjob[w] # 0 /\ wjob'[w] = 0
           /\ csettings.abort_on_errors
           /\ events'[wjob[w]] # << >>
           /\ Last(events'[wjob[w]]).status = "error"
           /\ Last(events'[wjob[w]]).error_message \in FaultDetails)
             => pause'
      ]_vars

\* C8: every job whose initial Processing event was emitted goes on to emit
\* a terminal event, never emits a second one, and each of its Error events
\* carries a detail.
C8_ExactlyOneTerminalEvent ==
    /\ [](\A j \in Jobs :
            /\ Cardinality(Terminals(j)) <= 1
            /\ \A i \in 1..Len(events[j]) :
                  events[j][i].status = "error"
                     => events[j][i].error_message # None)
    /\ \A j \in Jobs :
          (events[j] # << >>) ~> (Cardinality(Terminals(j)) = 1)

\* C8, witness: a job ended on a fault path with one Error event after its
\* Processing event.
C8_FaultReported ==
    \E j \in Jobs :
        /\ Len(events[j]) = 2
        /\ events[j][1].status = "processing"
        /\ events[j][2].status = "error"
        /\ \A w \in Workers : wjob[w] # j

\* the conditions of the fast path, as the specification lists them
FastPathConditions(s, job) ==
    /\ s.use_mkvpropedit
    /\ s.destination_dir_empty /\ s.overwrite_source
    /\ Given(job) = {}
    /\ ~(s.only_keep_audios_enabled /\ s.only_keep_audio_languages # << >>)
    /\ ~(s.only_keep_subtitles_enabled
            /\ s.only_keep_subtitle_languages # << >>)

\* C9: the property editor is probed or run for a job only under the
\* conditions of the fast path; a job outside them goes to full synthesis
\* with no process started and no event emitted on the way.
C9_FastPathOnlyWhenEligible ==
    [][\A w \in Workers :
          (wpc[w] = "pj_tool" /\ wpc'[w] # "pj_tool")
             => /\ proc'[wjob[w]].tool = "mkvpropedit"
                     => FastPathConditions(csettings, jobs[wjob[w]])
                /\ ~FastPathConditions(csettings, jobs[wjob[w]])
                     => /\ wpc'[w] = "pj_merge"
                        /\ proc' = proc /\ events' = events
      ]_vars

\* C9, witness: the property editor runs for a job.
C9_PropertyEditorRuns ==
    \E j \in Jobs : proc[j].tool = "mkvpropedit" /\ proc[j].st = "running"

C11_NoEditWithRemovedTrack ==
    \A j \in Jobs :
        proc[j].tool = "mkvpropedit"
           => \A i \in 1..Len(jobs[j].tracks) :
                 ~is_track_removed(jobs[j].tracks[i])

\* the position of the primary file's path in an argument list: the first
\* "src" after the output path
PrimaryAt(args) ==
    CHOOSE i \in 4..Len(args) :
        /\ args[i] = Text("src")
        /\ \A k \in 4..(i - 1) : args[k] # Text("src")

\* the arguments between the output path and the primary file's path
PrimaryFlags(args) == SubSeq(args, 4, PrimaryAt(args) - 1)

\* a keep-language allow-list is active for the kind
FilterActive(s, kind) ==
    CASE kind = "audio" ->
           s.only_keep_audios_enabled /\ s.only_keep_audio_languages # << >>
      [] kind = "subtitle" ->
           s.only_keep_subtitles_enabled
              /\ s.only_keep_subtitle_languages # << >>
      [] OTHER -> FALSE

AllowList(s, kind) ==
    IF kind = "audio" THEN s.only_keep_audio_languages
    ELSE s.only_keep_subtitle_languages

\* the positions of the tracks of the kind that are not marked Remove and,
\* under an active allow-list, have an allow-listed language
KeptAt(job, s, kind) ==
    SelectSeq(OfType(job.tracks, kind),
              LAMBDA i :
                /\ job.tracks[i].action # "remove"
                /\ FilterActive(s, kind)
                     => /\ job.tracks[i].language # None
                        /\ \E k \in 1..Len(AllowList(s, kind)) :
                              LowerCase(AllowList(s, kind)[k])
                                 = LowerCase(job.tracks[i].language))

\* the written form of a list of track ids
IdList(ids) == Join([k \in 1..Len(ids) |-> to_string(ids[k])], <<",">>)

KeepFlag(kind) ==
    CASE kind = "audio" -> <<"--audio-tracks">>
      [] kind = "subtitle" -> <<"--subtitle-tracks">>
      [] kind = "video" -> <<"--video-tracks">>

DisableFlag(kind) ==
    CASE kind = "audio" -> <<"--no-audio">>
      [] kind = "subtitle" -> <<"--no-subtitles">>
      [] kind = "video" -> <<"--no-video">>

HasFlag(flags, flag) == \E i \in 1..Len(flags) : flags[i] = flag

\* the argument that follows the first occurrence of the flag
ValueOf(flags, flag) ==
    flags[1 + CHOOSE i \in 1..Len(flags) :
                  /\ flags[i] = flag
                  /\ \A k \in 1..(i - 1) : flags[k] # flag]

\* the selection of a kind that an argument list asks of the primary file,
\* as a written id list
Selection(args, job, kind) ==
    LET flags == PrimaryFlags(args)
    IN  IF HasFlag(flags, KeepFlag(kind)) THEN ValueOf(flags, KeepFlag(kind))
        ELSE IF HasFlag(flags, DisableFlag(kind)) THEN << >>
        ELSE IdList(IdsAt(job.tracks, OfType(job.tracks, kind)))

Kinds == {"video", "audio", "subtitle"}

\* C12: when every track of a kind is kept (none is marked Remove and none
\* is excluded by a language filter), the arguments of the multiplexer
\* hold no selection flag for the kind.
C12_NoRedundantSelection ==
    \A j \in Jobs :
        proc[j].tool = "mkvmerge"
           => \A kind \in Kinds :
                 Len(KeptAt(jobs[j], csettings, kind))
                       = Len(OfType(jobs[j].tracks, kind))
                    => /\ ~HasFlag(PrimaryFlags(proc[j].args),
                                   KeepFlag(kind))
                       /\ ~HasFlag(PrimaryFlags(proc[j].args),
                                   DisableFlag(kind))

\* C13: the selection the arguments ask of the primary file is, for each
\* kind, the ids of the tracks not marked Remove that, under an active
\* allow-list of the kind, have an allow-listed language in any letter
\* case; video has no allow-list; and a kind with no allow-list of its own
\* and no track marked Remove gets no flag.
C13_SelectionIsKeptTracks ==
    \A j \in Jobs :
        proc[j].tool = "mkvmerge"
           => \A kind \in Kinds :
                 /\ Selection(proc[j].args, jobs[j], kind)
                       = IdList(IdsAt(jobs[j].tracks,
                                      KeptAt(jobs[j], csettings, kind)))
                 /\ (/\ ~FilterActive(csettings, kind)
                     /\ \A i \in 1..Len(jobs[j].tracks) :
                           jobs[j].tracks[i].track_type = kind
                              => jobs[j].tracks[i].action # "remove")
                       => /\ ~HasFlag(PrimaryFlags(proc[j].args),
                                      KeepFlag(kind))
                          /\ ~HasFlag(PrimaryFlags(proc[j].args),
                                      DisableFlag(kind))

\* C13, witness: under an audio allow-list of "eng", the arguments select
\* the one audio track, tagged "ENG", out of two, and hold no video or
\* subtitle flag although the video track is tagged "fra".
C13_OneAudioOfTwoSelected ==
    /\ proc[1].tool = "mkvmerge"
    /\ FilterActive(csettings, "audio")
    /\ ~FilterActive(csettings, "subtitle")
    /\ Len(jobs[1].tracks) = 3
    /\ jobs[1].tracks[1].language = "fra"
    /\ jobs[1].tracks[2].track_type = "audio"
    /\ jobs[1].tracks[2].language = "ENG"
    /\ jobs[1].tracks[3].track_type = "audio"
    /\ jobs[1].tracks[3].language = "fra"
    /\ \A i \in 1..3 : jobs[1].tracks[i].action = None
    /\ HasFlag(PrimaryFlags(proc[1].args), <<"--audio-tracks">>)
    /\ ValueOf(PrimaryFlags(proc[1].args), <<"--audio-tracks">>) = <<"1">>
    /\ \A kind \in {"video", "subtitle"} :
          /\ ~HasFlag(PrimaryFlags(proc[1].args), KeepFlag(kind))
          /\ ~HasFlag(PrimaryFlags(proc[1].args), DisableFlag(kind))

SetMin(S) == CHOOSE x \in S : \A y \in S : x <= y

\* the positions where the arguments of an external entry begin: each
\* entry opens with --no-video after the primary file's path
EntryStarts(args) ==
    { i \in (PrimaryAt(args) + 1)..Len(args) : args[i] = <<"--no-video">> }

\* the position of the file path that closes the entry beginning at i
EntryEnd(args, i) ==
    LET later == { k \in (i + 1)..Len(args) :
                     args[k] \in { <<"--no-video">>, <<"--chapters">>,
                                   <<"--attach-file">> } }
    IN  IF later = {} THEN Len(args) ELSE SetMin(later) - 1

EntryKind(args, i) ==
    IF args[i + 5] = <<"--audio-tracks">> THEN "audio" ELSE "subtitle"

EntryId(args, i) == args[i + 6]

EntryPath(args, i) == args[EntryEnd(args, i)]

\* the entry beginning at i holds the flag with the value
EntryHas(args, i, flag, value) ==
    \E k \in (i + 7)..(EntryEnd(args, i) - 2) :
        args[k] = flag /\ args[k + 1] = value

\* the entries of a kind that pull from the file
EntriesOf(args, file, kind) ==
    { i \in EntryStarts(args) :
        EntryPath(args, i) = Text(file.path) /\ EntryKind(args, i) = kind }

\* C14 for one file: probe is the kind the probe is asked for, kind the
\* kind of the entries
FileExpansion(args, file, probe, kind) ==
    LET ids == Probed(file, probe)
        N == Len(ids)
        E == EntriesOf(args, file, kind)
        first == SetMin(E)
    IN  /\ Cardinality(E) = IF N > 1 THEN N ELSE 1
        /\ N <= 1
             => EntryId(args, first)
                  = to_string(IF file.track_id # NoId THEN file.track_id
                              ELSE IF N = 1 THEN ids[1] ELSE 0)
        /\ file.language # None
             => EntryHas(args, first, <<"--language">>,
                         Colon(EntryId(args, first), Text(file.language)))
        /\ \A i \in E \ {first} :
              /\ file.language # None
                   => ~EntryHas(args, i, <<"--language">>,
                                Colon(EntryId(args, i),
                                      Text(file.language)))
              /\ ~EntryHas(args, i, <<"--default-track-flag">>,
                           Colon(EntryId(args, i), <<"yes">>))

\* C14: an external audio or subtitle file with no explicit track selection
\* and N probed tracks of its kind gives N entries when N > 1 and one entry
\* otherwise, of the declared id, else the probed id, else 0; the first
\* entry of a file applies the file's language, no later entry does, and no
\* later entry asks for default.
C14_OneEntryPerProbedTrack ==
    \A j \in Jobs :
        proc[j].tool = "mkvmerge"
           => /\ \A k \in 1..Len(jobs[j].audios) :
                    jobs[j].audios[k].included_track_ids = << >>
                       => FileExpansion(proc[j].args, jobs[j].audios[k],
                                        "audio", "audio")
              /\ \A k \in 1..Len(jobs[j].subtitles) :
                    jobs[j].subtitles[k].included_track_ids = << >>
                       => FileExpansion(proc[j].args, jobs[j].subtitles[k],
                                        "text", "subtitle")

\* C14, witness: an audio file with two probed tracks, a declared id, a
\* language and the default flag gives two entries, the second of them
\* with the default flag cleared.
C14_TwoEntriesForTwoTracks ==
    /\ proc[1].tool = "mkvmerge"
    /\ Len(jobs[1].audios) = 1
    /\ jobs[1].audios[1].included_track_ids = << >>
    /\ jobs[1].audios[1].track_id = 5
    /\ jobs[1].audios[1].language = "eng"
    /\ jobs[1].audios[1].is_default = "true"
    /\ Len(Probed(jobs[1].audios[1], "audio")) = 2
    /\ Cardinality(EntriesOf(proc[1].args, jobs[1].audios[1], "audio")) = 2
    /\ \E i \in EntriesOf(proc[1].args, jobs[1].audios[1], "audio") :
          EntryHas(proc[1].args, i, <<"--default-track-flag">>,
                   <<"2", ":", "no">>)

\* the last default flag the arguments give the primary track is "no"
DefaultCleared(flags, id) ==
    \E k \in 1..(Len(flags) - 1) :
        /\ flags[k] = <<"--default-track-flag">>
        /\ flags[k + 1] = Colon(to_string(id), <<"no">>)
        /\ \A n \in (k + 1)..(Len(flags) - 1) :
              ~(/\ flags[n] = <<"--default-track-flag">>
                /\ flags[n + 1] = Colon(to_string(id), <<"yes">>))

\* an external entry of the kind asks for default status
ExternalDefault(args, kind) ==
    \E i \in EntryStarts(args) :
        /\ EntryKind(args, i) = kind
        /\ EntryHas(args, i, <<"--default-track-flag">>,
                    Colon(EntryId(args, i), <<"yes">>))

\* C15: when an external audio (subtitle) entry asks for default status,
\* the last default flag given to each kept primary audio (subtitle) track
\* before the primary file's path is "no".
C15_ExternalDefaultWins ==
    \A j \in Jobs :
        proc[j].tool = "mkvmerge"
           => \A kind \in {"audio", "subtitle"} :
                 ExternalDefault(proc[j].args, kind)
                    => \A k \in 1..Len(KeptAt(jobs[j], csettings, kind)) :
                          DefaultCleared(
                             PrimaryFlags(proc[j].args),
                             IdsAt(jobs[j].tracks,
                                   KeptAt(jobs[j], csettings, kind))[k])

\* the external entries in the order their files follow the primary file
EntrySeq(args) ==
    SelectSeq([i \in 1..Len(args) |-> i],
              LAMBDA i : i \in EntryStarts(args))

\* the file of the job with the path
PerFile(job, path) ==
    \E list \in {"audios", "subtitles"} :
        \E k \in 1..Len(job[list]) :
            /\ Text(job[list][k].path) = path
            /\ job[list][k].source = "per-file"

\* the order entries fileIndex:trackId of the external entries of a kind
\* and scope, the file index being the position among the files that
\* follow the primary file
OrderOf(args, job, kind, per_file) ==
    LET seq == EntrySeq(args)
        at == SelectSeq([n \in 1..Len(seq) |-> n],
                        LAMBDA n :
                          /\ EntryKind(args, seq[n]) = kind
                          /\ PerFile(job, EntryPath(args, seq[n]))
                                = per_file)
    IN  [m \in 1..Len(at) |->
           Colon(to_string(at[m]), EntryId(args, seq[at[m]]))]

\* the order entries 0:id of the primary tracks of a kind that are not
\* marked Remove
PrimaryOrder(job, kind) ==
    LET at == SelectSeq(OfType(job.tracks, kind),
                        LAMBDA i : job.tracks[i].action # "remove")
    IN  [m \in 1..Len(at) |->
           Colon(<<"0">>, to_string(IdsAt(job.tracks, at)[m]))]

ExpectedOrder(args, job) ==
    PrimaryOrder(job, "video")
       \o OrderOf(args, job, "audio", FALSE)
       \o OrderOf(args, job, "audio", TRUE)
       \o PrimaryOrder(job, "audio")
       \o PrimaryOrder(job, "subtitle")
       \o OrderOf(args, job, "subtitle", FALSE)
       \o OrderOf(args, job, "subtitle", TRUE)

\* C16: with an external audio or subtitle entry, the arguments hold one
\* --track-order list: the primary video tracks, the bulk and then the
\* per-file external audio entries, the primary audio tracks, the primary
\* subtitle tracks, the bulk and then the per-file external subtitle
\* entries, the primary tracks being those not marked Remove and each
\* external entry written fileIndex:trackId; without an external entry the
\* flag is absent.
C16_TrackOrderList ==
    \A j \in Jobs :
        proc[j].tool = "mkvmerge"
           => LET args == proc[j].args
                  flags == PrimaryFlags(args)
              IN  IF EntryStarts(args) # {}
                    THEN /\ HasFlag(flags, <<"--track-order">>)
                         /\ ValueOf(flags, <<"--track-order">>)
                               = Join(ExpectedOrder(args, jobs[j]), <<",">>)
                         /\ args[PrimaryAt(args) - 2] = <<"--track-order">>
                    ELSE ~HasFlag(flags, <<"--track-order">>)

\* C16, witness: a per-file audio file of two tracks, a bulk audio file
\* with its subtitle track, and a subtitle file.
C16_MixedScopesOrdered ==
    /\ proc[1].tool = "mkvmerge"
    /\ HasFlag(PrimaryFlags(proc[1].args), <<"--track-order">>)
    /\ ValueOf(PrimaryFlags(proc[1].args), <<"--track-order">>)
          = << "0", ":", "0", ",", "3", ":", "3", ",", "1", ":", "1", ",",
               "2", ":", "2", ",", "0", ":", "1", ",", "0", ":", "3", ",",
               "4", ":", "4", ",", "5", ":", "4" >>

\* The quoting rules of the shell, one character at a time.  The state is
\* the quote the reader is in (mode), whether a backslash waits for the
\* next character (esc), the word begun (word, started) and the words
\* ended (out).  Outside quotes a space ends a word and a backslash makes
\* the next character literal; between double quotes a backslash does so
\* before a double quote or a backslash only; between single quotes
\* nothing is special.
Read(s, ch) ==
    IF s.esc
      THEN IF s.mode = "double" /\ ch \notin {"\"", "\\"}
             THEN [s EXCEPT !.esc = FALSE, !.word = @ \o <<"\\", ch>>]
             ELSE [s EXCEPT !.esc = FALSE, !.word = Append(@, ch),
                            !.started = TRUE]
    ELSE IF s.mode = "single"
      THEN IF ch = "'" THEN [s EXCEPT !.mode = "plain"]
           ELSE [s EXCEPT !.word = Append(@, ch)]
    ELSE IF ch = "\\" THEN [s EXCEPT !.esc = TRUE]
    ELSE IF s.mode = "double"
      THEN IF ch = "\"" THEN [s EXCEPT !.mode = "plain"]
           ELSE [s EXCEPT !.word = Append(@, ch)]
    ELSE IF ch = " "
      THEN [s EXCEPT !.word = << >>, !.started = FALSE,
                     !.out = IF s.started THEN Append(@, s.word) ELSE @]
    ELSE IF ch = "\"" THEN [s EXCEPT !.mode = "double", !.started = TRUE]
    ELSE IF ch = "'" THEN [s EXCEPT !.mode = "single", !.started = TRUE]
    ELSE [s EXCEPT !.word = Append(@, ch), !.started = TRUE]

RECURSIVE ReadFrom(_, _, _, _)
\* the state after the characters lo..hi of the line, read in order: the
\* left half is read to its end before the right half is begun
ReadFrom(line, lo, hi, s) ==
    IF lo > hi THEN s
    ELSE IF lo = hi THEN Read(s, line[lo])
    ELSE LET mid == (lo + hi) \div 2
             left == ReadFrom(line, lo, mid, s)
         IN  IF left.esc \in BOOLEAN
               THEN ReadFrom(line, mid + 1, hi, left)
               ELSE left

\* the words of a command line; a quote left open gives no argument list
Tokenize(line) ==
    LET s == ReadFrom(line, 1, Len(line),
                      [mode |-> "plain", esc |-> FALSE, word |-> << >>,
                       started |-> FALSE, out |-> << >>])
    IN  IF s.mode # "plain" THEN << <<"unterminated quote">> >>
        ELSE IF s.started THEN Append(s.out, s.word)
        ELSE s.out

\* C17: the command line preview_mux shows for a job and its settings,
\* split into words by the quoting rules of the shell, is the program name
\* followed by the arguments process_job hands the multiplexer for the
\* same job and settings.
C17_PreviewRoundTrip ==
    \A j \in Jobs :
        (/\ proc[j].tool = "mkvmerge"
         /\ preview # << >>
         /\ preview[1].request = Input(csettings, jobs[j]))
           => Tokenize(preview[1].command)
                 = << <<"mkvmerge">> >> \o proc[j].args

\* C18: every event emitted has a percentage between 0 and 100, the
\* Processing events of the reader threads among them: a line whose
\* digits before '%' read 150 gives no event with that percentage.
C18_PercentWithinRange ==
    \A j \in Jobs : \A e \in Range(events[j]) : e.progress \in 0..100

\* C19: with a destination folder set (and the destination not the
\* primary file's own path) the multiplexer is told to write the final
\* path, no temporary file ever exists, and the primary file stays in
\* place, whatever overwrite_source is.
C19_DestinationKeepsPrimary ==
    \A j \in Jobs :
        (/\ files[j] # {}
         /\ ~csettings.destination_dir_empty
         /\ ~jobs[j].final_is_source)
            => /\ "tmp" \notin files[j]
               /\ "src" \in files[j]
               /\ proc[j].tool = "mkvmerge"
                     => ValueOf(proc[j].args, <<"--output">>) = Text("final")

\* C20: a session log that cannot be cleared or written never blocks
\* muxing: every call of start_muxing stores the settings of the request
\* and leaves the worker pool running.
C20_EveryStartRuns ==
    [][starts' # starts => running' /\ settings' # << >>]_vars

\* C21: a job that completes with add_crc enabled leaves its output
\* under the name with the CRC token and not under the unstamped final
\* name, the checksum is not stripped, and the Completed event carries
\* the size of the renamed file.
C21_CompletedWithChecksum ==
    \A j \in Jobs :
        (/\ csettings.add_crc
         /\ \E e \in Range(events[j]) : e.status = "completed")
            => /\ "crc" \in files[j]
               /\ final_path(csettings, jobs[j]) \notin files[j]
               /\ "stripped" \notin files[j]
               /\ \A e \in Range(events[j]) :
                     e.status = "completed" => e.size_after = "Some"

\* the jobs whose external process is alive or not yet reaped
Executing == { j \in Jobs : proc[j].st \in {"running", "killed"} }

\* the workers inside process_job
Busy == { w \in Workers : wjob[w] # 0 }

\* max(1, maxParallel) of the settings the pool was started with
PoolBound ==
    IF csettings.max_parallel_jobs \in 1..MaxParallel
      THEN csettings.max_parallel_jobs
      ELSE 1

\* C22: at any time at most max(1, maxParallel) jobs are being executed,
\* and no job is executed by two workers at once.
C22_AtMostMaxParallelJobs ==
    /\ Cardinality(Executing) <= PoolBound
    /\ Cardinality(Busy) <= PoolBound
    /\ \A v, w \in Busy : wjob[v] = wjob[w] => v = w
    /\ \A j \in Executing : \E w \in Busy : wjob[w] = j

\* under maxParallel = 1 one job is executed while another waits in the
\* channel
C22_OneRunsOneWaits ==
    /\ csettings.max_parallel_jobs = 1
    /\ Cardinality(Executing) = 1
    /\ chan # << >>

\* the worker threads of the session that have not exited
Alive == { w \in Workers : wpc[w] \notin {"idle", "exited"} }

\* C24: once stop is set, it stays set for as long as a worker of the
\* session is alive: no command clears it under a running pool.
C24_StopHeldWhileWorkersAlive ==
    [][(stop /\ Alive # {}) => stop']_vars

\* C25: no Processing event of a job is emitted after the job's terminal
\* event: the reader threads emit nothing once the worker has reported.
C25_NoProgressAfterTerminal ==
    \A j \in Jobs : \A i \in Terminals(j) :
        \A k \in (i + 1)..Len(events[j]) :
            events[j][k].status # "processing"

\* C26: a job whose process was killed is reported as Error, never as
\* Completed, and the report leaves its files as they are: the primary
\* file is neither deleted nor replaced.
C26_KilledJobReportsError ==
    [][\A w \in Workers :
         (/\ wpc[w] = "report"
          /\ wpc'[w] # "report"
          /\ proc[wjob[w]].killed)
            => /\ events'[wjob[w]][Len(events'[wjob[w]])].status = "error"
               /\ files'[wjob[w]] = files[wjob[w]]]_vars

\* the ids of the primary tracks in the final selection of their kind
KeptIds(job, s) ==
    UNION { Range(IdsAt(job.tracks, KeptAt(job, s, kind))) : kind \in Kinds }

\* the flags that edit a property of one primary track
EditFlags ==
    { <<"--track-name">>, <<"--language">>, <<"--default-track-flag">>,
      <<"--forced-display-flag">> }

\* the track ids the entries 0:id of an order list name
OrderedPrimaryIds(order) ==
    { order[p + 2] : p \in { q \in 1..(Len(order) - 2) :
                               /\ order[q] = "0"
                               /\ order[q + 1] = ":"
                               /\ (q = 1 \/ order[q - 1] = ",") } }

\* C28: every primary track named by an edit flag or by an entry of the
\* track-order list is in the final selection of its kind: not marked
\* Remove and not excluded by an active keep-language filter.
C28_EditsOnlySelectedTracks ==
    \A j \in Jobs :
        proc[j].tool = "mkvmerge"
           => LET flags == PrimaryFlags(proc[j].args)
                  kept == { to_string(id)[1] :
                              id \in KeptIds(jobs[j], csettings) }
              IN  /\ \A i \in 1..(Len(flags) - 1) :
                        flags[i] \in EditFlags => flags[i + 1][1] \in kept
                  /\ HasFlag(flags, <<"--track-order">>)
                        => OrderedPrimaryIds(
                              ValueOf(flags, <<"--track-order">>))
                              \subseteq kept

\* C30: every job list a start_muxing call accepted is processed by a
\* worker pool: when the coordinator of a session that was not stopped
\* sets running back to false, every job of the queue has got its
\* terminal event.
C30_AcceptedJobsProcessed ==
    [][(running /\ ~running' /\ ~stop)
          => \A j \in Range(queue) : Terminals(j) # {}]_vars

\* the paths a job writes, renames to or deletes: its temporary and
\* final output paths
Written(paths) == {paths.output_path, paths.final_path}

\* C27: two jobs of one request with distinct primary paths resolve to
\* disjoint temporary and final output paths.
C27_DistinctOutputPaths ==
    (preview # << >> /\ "paths" \in DOMAIN preview[1])
       => Written(preview[1].paths[1]) \cap Written(preview[1].paths[2]) = {}

\* the positions at which a thread sleeps, waits on the job queue, waits
\* for the workers, or kills or polls a process
BlockingPositions ==
    {"sleep", "wait_sleep", "recv", "join", "wait_kill", "wait_try", "kill"}

\* the thread holds the state mutex and its guard is in scope
HoldsState(t) ==
    /\ mutex[StateMutex].by = t
    /\ StateMutex \notin Dropped(t)

\* C23: the state mutex is never held across a blocking wait: no thread
\* that holds it sleeps, waits on the job queue, waits for or kills a
\* process, or waits for another mutex.
C23_StateMutexNotHeldAcrossWait ==
    \A t \in LockThreads :
        HoldsState(t) =>
            /\ ~Wanting(t)
            /\ Position(t)[1] \notin BlockingPositions

\* the thread a waiting thread waits for: the holder of the mutex it wants
HolderFor(t) ==
    mutex[CHOOSE m \in Needs(t) : mutex[m].by # t].by

\* following the holders from t for at most n threads ends at a thread
\* that has a step to take
RECURSIVE Unblocked(_, _)
Unblocked(t, n) ==
    IF ~Wanting(t) THEN ENABLED Runs(t)
    ELSE IF HolderFor(t) = Free.by THEN TRUE
    ELSE n > 0 /\ Unblocked(HolderFor(t), n - 1)

\* C29: no interleaving of the commands, the worker loops and the
\* supervision loops deadlocks: a thread only ever waits for a handle mutex
\* while holding the state mutex, never the other way round, and every
\* thread that waits for a mutex waits behind holders the last of which
\* can run, so every lock request can be granted.
C29_NoDeadlock ==
    \A t \in LockThreads :
        Wanting(t) =>
            /\ \A m \in Mutexes :
                 mutex[m].by = t =>
                     /\ m = StateMutex
                     /\ Needs(t) \subseteq { Handle(j) : j \in Jobs }
            /\ Unblocked(t, Cardinality(LockThreads))

\* a command waits in stop_muxing for the handle a worker holds, and
\* another thread waits for the state mutex the command holds
C29_ChainOfWaiters ==
    \E c \in Callers, w \in Workers, t \in LockThreads :
        /\ cmd[c].pc = "kill"
        /\ Wanting(Caller(c))
        /\ mutex[Handle(cmd[c].child)].by = Worker(w)
        /\ t # Caller(c)
        /\ Wanting(t)
        /\ StateMutex \in Needs(t)
====
